---- MODULE Spec2Model ----
(***************************************************************************)
(* Model of Azure/multi-agent-doc-research:                                *)
(*   - GraphRAGMCPPlugin (services_sk/graphrag_mcp_plugin.py): the         *)
(*     connection supervisor of the subprocess-backed MCP session, run by  *)
(*     cooperative asyncio tasks.  Every `await` of the source is a        *)
(*     suspension point: the code between two awaits is one atomic step.   *)
(*   - utils/json_control.py: the structured-output recovery pipeline.     *)
(***************************************************************************)
EXTENDS Integers, Sequences, FiniteSets, TLC

(* ------------------------------ bounds -------------------------------- *)
NumTasks == 2      \* concurrent asyncio tasks sharing one plugin instance
MaxClients == 3    \* stdio_client objects created in one behaviour
MaxCut == 2        \* characters cut off the end of a model output

Tasks == 1..NumTasks
Objs == 1..MaxClients

VARIABLES
  \* GraphRAGMCPPlugin fields
  mcp_session,      \* 0 (None) or the id of the ClientSession object
  mcp_client,       \* 0 (None) or the id of the stdio_client object
  graphrag_enabled, \* self.graphrag_enabled
  is_connecting,    \* self._is_connecting
  lockHolder,       \* self._connection_lock: 0 (free) or the holding task
  lockQueue,        \* self._connection_lock: FIFO of waiting tasks
  \* environment
  MCP_AVAILABLE,    \* module flag set by the import at load time
  venv_exists,      \* graphrag_venv_python.exists()
  \* the objects the plugin creates; attempt k creates client k, session k
  nClients,         \* stdio_client objects created so far
  nSpawned,         \* subprocesses spawned so far (__aenter__ succeeded)
  transport,        \* client k: none, created (no subprocess yet or none
                    \* at all), running (spawned, no __aexit__ called on
                    \* it), stopping (__aexit__ was called on it), gone
  sessState,        \* session k: none, new, entered, ready (initialized),
                    \* closed (__aexit__ was called on it), gone
  \* the tasks
  pc,               \* the await a task is suspended at, or idle
  op,               \* the top-level call a task is running
  ret,              \* where the task's cleanup() returns to
  result,           \* the value the task's call returned (pc = done)
  answer,           \* the awaited list_tools() will answer (else fail)
  sessFail,         \* cleanup: the session's __aexit__ raised (swallowed)
  argOk,            \* index_documents: markdown_files is valid JSON
  \* one call of clean_and_validate_json
  raw,              \* the argument as the caller gave it
  return_dict,      \* the argument return_dict
  step,             \* where the call is
  content,          \* the local variable content
  parsed,           \* the local variable parsed
  fields_bound,     \* the local variable markdown_fields is bound (line 68)
  exc,              \* the exception in flight or caught last
  returned,         \* the object returned (return_dict)
  returned_text,    \* the str returned (not return_dict)
  \* one call of a markdown normaliser
  md_fn,            \* the function called
  md_arg,           \* its argument
  md_step,          \* called or returned
  md_out,           \* the value it returned
  \* a GraphRAGExecutor on the plugin, and one call of process_graphrag
  ex_enabled,       \* GraphRAGExecutor.graphrag_enabled
  ex_pc,            \* where the call is
  ex_data,          \* the argument data
  ex_sent,          \* the messages given to ctx.send_message
  ex_ret,           \* the value returned
  \* one call of the MCP server's call_tool
  sv_step,          \* called or returned
  sv_name,          \* the argument name
  sv_arguments,     \* the argument arguments
  sv_response       \* the list of contents returned

pvars == <<mcp_session, mcp_client, graphrag_enabled, is_connecting,
           lockHolder, lockQueue, MCP_AVAILABLE, venv_exists, nClients,
           nSpawned, transport, sessState, pc, op, ret, result, answer,
           sessFail, argOk>>

jvars == <<raw, return_dict, step, content, parsed, fields_bound, exc,
           returned, returned_text>>

mvars == <<md_fn, md_arg, md_step, md_out>>

evars == <<ex_enabled, ex_pc, ex_data, ex_sent, ex_ret>>

svars == <<sv_step, sv_name, sv_arguments, sv_response>>

vars == <<pvars, jvars, mvars, evars, svars>>

ToolNames == {"index_documents", "local_search", "global_search"}

(* The plugin's state as one record, so that the code between two awaits   *)
(* is a function from state to state.                                      *)
Cur ==
  [mcp_session |-> mcp_session, mcp_client |-> mcp_client,
   graphrag_enabled |-> graphrag_enabled, is_connecting |-> is_connecting,
   lockHolder |-> lockHolder, lockQueue |-> lockQueue,
   MCP_AVAILABLE |-> MCP_AVAILABLE, venv_exists |-> venv_exists,
   nClients |-> nClients, nSpawned |-> nSpawned, transport |-> transport,
   sessState |-> sessState, pc |-> pc, op |-> op, ret |-> ret,
   result |-> result, answer |-> answer, sessFail |-> sessFail,
   argOk |-> argOk]

PluginBecomes(s) ==
  /\ mcp_session' = s.mcp_session
  /\ mcp_client' = s.mcp_client
  /\ graphrag_enabled' = s.graphrag_enabled
  /\ is_connecting' = s.is_connecting
  /\ lockHolder' = s.lockHolder
  /\ lockQueue' = s.lockQueue
  /\ MCP_AVAILABLE' = s.MCP_AVAILABLE
  /\ venv_exists' = s.venv_exists
  /\ nClients' = s.nClients
  /\ nSpawned' = s.nSpawned
  /\ transport' = s.transport
  /\ sessState' = s.sessState
  /\ pc' = s.pc
  /\ op' = s.op
  /\ ret' = s.ret
  /\ result' = s.result
  /\ answer' = s.answer
  /\ sessFail' = s.sessFail
  /\ argOk' = s.argOk

Becomes(s) == PluginBecomes(s) /\ UNCHANGED <<jvars, mvars, evars, svars>>

(* ---------------------- GraphRAGMCPPlugin.__init__ --------------------- *)
\* self.graphrag_enabled: the environment flag, forced off without the library
InitEnabled(env, avail) == env /\ avail

PluginInit(env, avail, venv) ==
  /\ mcp_session = 0
  /\ mcp_client = 0
  /\ graphrag_enabled = InitEnabled(env, avail)
  /\ is_connecting = FALSE
  /\ lockHolder = 0
  /\ lockQueue = <<>>
  /\ MCP_AVAILABLE = avail
  /\ venv_exists = venv
  /\ nClients = 0
  /\ nSpawned = 0
  /\ transport = [k \in Objs |-> "none"]
  /\ sessState = [k \in Objs |-> "none"]
  /\ pc = [t \in Tasks |-> "idle"]
  /\ op = [t \in Tasks |-> "none"]
  /\ ret = [t \in Tasks |-> "top"]
  /\ result = [t \in Tasks |-> "none"]
  /\ answer = [t \in Tasks |-> FALSE]
  /\ sessFail = [t \in Tasks |-> FALSE]
  /\ argOk = [t \in Tasks |-> TRUE]

(* ------------------------- returning to the caller --------------------- *)
\* a top-level call ends: its locals are gone and its caller holds the value
Finish(s, t, r) ==
  [s EXCEPT !.pc[t] = "done", !.result[t] = r, !.ret[t] = "top",
            !.answer[t] = FALSE, !.sessFail[t] = FALSE, !.argOk[t] = TRUE]

\* the caller drops the value and is ready for its next call
Drop(s, t) ==
  [s EXCEPT !.pc[t] = "idle", !.op[t] = "none", !.result[t] = "none"]

\* index_documents line 191: json.loads(markdown_files) raises on bad input
FilesParse(s, t) == s.op[t] # "index_documents" \/ s.argOk[t]

\* a tool whose try block does not catch the AttributeError of
\* None.call_tool
ToolAfterEnsure_NoneRaises(s, t, v) ==
  IF v = "raised" THEN Finish(s, t, "error_exception")
  ELSE IF v = "false" THEN Finish(s, t, "error_unavailable")
  ELSE IF ~FilesParse(s, t) THEN Finish(s, t, "error_exception")
  ELSE IF s.mcp_session = 0
       THEN Finish(s, t, "raised")
       ELSE [s EXCEPT !.pc[t] = "t_call"]

\* index_documents / local_search / global_search after the call of
\* _ensure_mcp_connection (lines 185-211, 230-254, 272-293); v is its value,
\* "raised" when it let an exception through (caught by `except Exception`)
ToolAfterEnsure(s, t, v) ==
  IF v = "raised" THEN Finish(s, t, "error_exception")
  ELSE IF v = "false" THEN Finish(s, t, "error_unavailable")
  ELSE IF ~FilesParse(s, t) THEN Finish(s, t, "error_exception")
  ELSE IF s.mcp_session = 0
       THEN Finish(s, t, "error_exception")  \* None.call_tool: AttributeError
       ELSE [s EXCEPT !.pc[t] = "t_call"]

\* _ensure_mcp_connection returns v to its caller
Return(s, t, v) ==
  IF s.op[t] = "ensure" THEN Finish(s, t, v) ELSE ToolAfterEnsure(s, t, v)

\* asyncio.Lock.release() at the end of `async with` (line 74)
Release(s) == [s EXCEPT !.lockHolder = 0]

\* lines 77 and 83: a return inside `async with`, outside the try block
LockedReturn(s, t, v) == Return(Release(s), t, v)

\* variant: no finally clause, the marker stays as the attempt set it
Finally_KeepsMarker(s) == s

\* lines 131-132: the finally clause, then the lock's release
Finally(s) == [s EXCEPT !.is_connecting = FALSE]

\* lines 124 and 129: a return (or a propagating exception) inside the try
TryReturn(s, t, v) == Return(Release(Finally(s)), t, v)

(* ------------------------------- cleanup ------------------------------- *)
\* variant: a failed shutdown propagates out of cleanup()
CleanupPropagates == FALSE

\* lines 145 and 155: `except (RuntimeError, Exception)` swallows the failure
CleanupSwallows == TRUE

RECURSIVE Line70(_, _)

\* cleanup() is over (line 161), or an exception leaves it (raised)
CleanupReturn(s, t, raised) ==
  CASE s.ret[t] = "top" ->
         Finish(s, t, IF raised THEN "raised" ELSE "returned")
    [] s.ret[t] = "line68" ->
         IF raised THEN Return(s, t, "raised") ELSE Line70(s, t)
    [] s.ret[t] = "line128" ->
         TryReturn(s, t, IF raised THEN "raised" ELSE "false")

\* lines 151-153: the transport's shutdown is awaited if the handle is set
CleanupClient(s, t) ==
  IF s.mcp_client # 0
  THEN [s EXCEPT !.transport[s.mcp_client] = "stopping", !.pc[t] = "c_client"]
  ELSE CleanupReturn(s, t, FALSE)

\* lines 141-143: the session's shutdown is awaited if the handle is set
CleanupEntry(s, t, r) ==
  LET s1 == [s EXCEPT !.ret[t] = r] IN
  IF s1.mcp_session # 0
  THEN [s1 EXCEPT !.sessState[s1.mcp_session] = "closed", !.pc[t] = "c_sess"]
  ELSE CleanupClient(s1, t)

\* lines 144-149: after the session's __aexit__; finally mcp_session = None
AfterSessExit(s, t, ok) ==
  LET s1 == [s EXCEPT !.mcp_session = 0] IN
  IF ok \/ CleanupSwallows
  THEN CleanupClient([s1 EXCEPT !.sessFail[t] = ~ok], t)
  ELSE CleanupReturn(s1, t, TRUE)

\* variant: cleanup() without the `finally` of line 158, the handle is kept
AfterClientExit_KeepsHandle(s, t, ok) == CleanupReturn(s, t, FALSE)

\* lines 154-161: after the transport's __aexit__; finally mcp_client = None
AfterClientExit(s, t, ok) ==
  LET s1 == [s EXCEPT !.mcp_client = 0] IN
  CleanupReturn(s1, t, ~(ok \/ CleanupSwallows))

(* ------------------------ _ensure_mcp_connection ----------------------- *)
\* variant: the `except` of line 126 returns false without cleanup()
ExceptPath_NoCleanup(s, t) == TryReturn(s, t, "false")

\* line 126-128: `except Exception` of the connection attempt calls cleanup()
ExceptPath(s, t) == CleanupEntry(s, t, "line128")

\* lines 64, 120: list_tools() is sent on the session now in mcp_session.
\* Whether it will be answered (ans) is settled when it is sent; only a
\* session whose handshake is complete and that is not shut down answers.
SendListTools(s, t, at, ans) ==
  [s EXCEPT !.answer[t] = ans /\ s.sessState[s.mcp_session] = "ready",
            !.pc[t] = at]

\* Line 114 overwrites mcp_client: the objects of the earlier attempts are
\* out of the plugin's reach for good.  What stays of an earlier client is
\* whether its subprocess runs on without a shutdown attempt.
Forget(s) ==
  [s EXCEPT !.transport = [j \in Objs |->
                IF @[j] \in {"none", "running"} THEN @[j] ELSE "gone"],
            !.sessState = [j \in Objs |->
                IF j <= s.nClients THEN "gone" ELSE @[j]]]

\* lines 85-115: the in-progress marker, the executable's check, the
\* stdio_client object, and the await of its __aenter__
Connect(s, t) ==
  LET s1 == [s EXCEPT !.is_connecting = TRUE] IN
  IF ~s1.venv_exists
  THEN ExceptPath(s1, t)                       \* RuntimeError, line 96
  ELSE LET k == s1.nClients + 1 IN
       [Forget(s1) EXCEPT !.nClients = k, !.mcp_client = k,
                          !.transport[k] = "created", !.pc[t] = "e_spawn"]

\* line 76: the re-check after the lock is acquired
LockedReuse(s) == s.mcp_session # 0

\* lines 75-87: the body of `async with self._connection_lock`
Locked(s, t) ==
  IF LockedReuse(s) THEN LockedReturn(s, t, "true")
  ELSE IF s.is_connecting
       THEN [s EXCEPT !.pc[t] = "e_sleep"]     \* await asyncio.sleep(1)
       ELSE Connect(s, t)

\* variant: no lock and no in-progress check, the attempt starts at once
Acquire_Unguarded(s, t) == Connect(s, t)

\* line 74: asyncio.Lock.acquire(): taken at once when free and nobody is
\* queued, else the task waits its turn
Acquire(s, t) ==
  IF s.lockHolder = 0 /\ s.lockQueue = <<>>
  THEN Locked([s EXCEPT !.lockHolder = t], t)
  ELSE [s EXCEPT !.lockQueue = Append(@, t), !.pc[t] = "e_lock"]

\* variant: the check of line 70 is absent
Disabled_Never(s) == FALSE

\* line 70: the disabled check
Disabled(s) == ~s.MCP_AVAILABLE \/ ~s.graphrag_enabled

\* lines 70-74
Line70(s, t) ==
  IF Disabled(s) THEN Return(s, t, "false") ELSE Acquire(s, t)

\* line 61: a session handle exists
HasSession(s) == s.mcp_session # 0

\* lines 61-64: entry of _ensure_mcp_connection
EnsureEntry(s, t, ans) ==
  IF HasSession(s) THEN SendListTools(s, t, "e_probe", ans) ELSE Line70(s, t)

\* variant: the probe's answer is ignored, the session is always discarded
AfterProbe_Reconnects(s, t, ok) == CleanupEntry(s, t, "line68")

\* lines 65-68: after the probe
AfterProbe(s, t, ok) ==
  IF ok THEN Return(s, t, "true") ELSE CleanupEntry(s, t, "line68")

\* lines 115-117: after the transport's __aenter__
AfterSpawn(s, t, ok) ==
  IF ~ok THEN ExceptPath(s, t)
  ELSE LET k == s.nClients IN
       [s EXCEPT !.nSpawned = @ + 1,
                 !.transport[k] = IF @ = "created" THEN "running" ELSE @,
                 !.mcp_session = k, !.sessState[k] = "new",
                 !.pc[t] = "e_enter"]

\* a step of the handshake moves a session on unless it was shut down
Advance(s, to) ==
  IF s.sessState[s.nClients] = "closed" THEN s
  ELSE [s EXCEPT !.sessState[s.nClients] = to]

\* lines 117-118: after the session's __aenter__; self.mcp_session is read
\* again and is None if a cleanup ran meanwhile (AttributeError)
AfterSessEnter(s, t, ok) ==
  IF ~ok \/ s.mcp_session = 0 THEN ExceptPath(s, t)
  ELSE [Advance(s, "entered") EXCEPT !.pc[t] = "e_init"]

\* lines 118-120: after initialize()
AfterInitialize(s, t, ok, ans) ==
  IF ~ok \/ s.mcp_session = 0 THEN ExceptPath(s, t)
  ELSE SendListTools(Advance(s, "ready"), t, "e_list", ans)

\* lines 120-124: after list_tools()
AfterListTools(s, t, ok) ==
  IF ok THEN TryReturn(s, t, "true") ELSE ExceptPath(s, t)

\* lines 82-83: after the sleep
AfterSleep(s, t) ==
  LockedReturn(s, t, IF s.mcp_session # 0 THEN "true" ELSE "false")

(* ------------------------------- tools --------------------------------- *)
\* lines 179, 224, 266: `if not self.graphrag_enabled`
ToolDisabled(s) == ~s.graphrag_enabled

\* lines 178-185, 223-230, 265-272
ToolEntry(s, t, ans) ==
  IF ToolDisabled(s) THEN Finish(s, t, "disabled") ELSE EnsureEntry(s, t, ans)

\* lines 201, 244, 283: the first text payload, or "{}" without content
AfterCallTool(s, t, out) ==
  Finish(s, t, CASE out = "content" -> "payload"
                 [] out = "empty" -> "empty_object"
                 [] OTHER -> "error_exception")

(* ============================ text and regex =========================== *)
MinOf(S) == CHOOSE x \in S : \A y \in S : x <= y

MaxOf(S) == CHOOSE x \in S : \A y \in S : x >= y

\* Python str values are TLA+ strings; indexes are 1-based, 0 is "not found"
\* s[i-1:j] of Python: positions outside the text hold nothing
Slice(s, i, j) ==
  LET a == IF i < 1 THEN 1 ELSE i
      b == IF j > Len(s) THEN Len(s) ELSE j
  IN IF a > b THEN "" ELSE SubSeq(s, a, b)

Ch(s, i) == Slice(s, i, i)

From(s, i) == Slice(s, i, Len(s))

StartsAt(s, i, p) == i + Len(p) - 1 <= Len(s) /\ Slice(s, i, i + Len(p) - 1) = p

StartsWith(s, p) == StartsAt(s, 1, p)

EndsWith(s, p) == Len(p) <= Len(s) /\ From(s, Len(s) - Len(p) + 1) = p

\* the whitespace of str.strip(), of the regex class \s and of the JSON
\* scanner, as far as the texts of the model go
Space == {" ", "\n", "\t", "\r"}

\* the first position from i on that holds no whitespace
LStripFrom(s, i) ==
  MinOf({j \in i..Len(s) : Ch(s, j) \notin Space}
          \cup {IF i > Len(s) THEN i ELSE Len(s) + 1})

\* the last position up to j that holds no whitespace
RStripTo(s, j) == MaxOf({k \in 1..j : Ch(s, k) \notin Space} \cup {0})

\* str.strip()
Strip(s) == Slice(s, LStripFrom(s, 1), RStripTo(s, Len(s)))

\* str.find(p) from position i on
FindFrom(s, p, i) ==
  LET at == {j \in i..(Len(s) - Len(p) + 1) : StartsAt(s, j, p)} IN
  IF at = {} THEN 0 ELSE MinOf(at)

Find(s, p) == FindFrom(s, p, 1)

\* str.rfind(p)
RFind(s, p) ==
  LET at == {j \in 1..(Len(s) - Len(p) + 1) : StartsAt(s, j, p)} IN
  IF at = {} THEN 0 ELSE MaxOf(at)

Contains(s, p) == Find(s, p) # 0

\* str.split('\n')
RECURSIVE SplitLines(_)
SplitLines(s) ==
  LET i == Find(s, "\n") IN
  IF i = 0 THEN <<s>>
  ELSE <<Slice(s, 1, i - 1)>> \o SplitLines(From(s, i + 1))

\* '\n'.join(lines)
RECURSIVE JoinLines(_)
JoinLines(lines) ==
  IF lines = <<>> THEN ""
  ELSE IF Len(lines) = 1 THEN lines[1]
  ELSE lines[1] \o "\n" \o JoinLines(Tail(lines))

\* str.replace(old, new)
RECURSIVE Replace(_, _, _)
Replace(s, old, new) ==
  LET i == Find(s, old) IN
  IF i = 0 THEN s
  ELSE Slice(s, 1, i - 1) \o new \o Replace(From(s, i + Len(old)), old, new)

(* A regular expression is a sequence of items.  An item is a character
   class with a quantifier, a literal text, a group of items with a
   quantifier, or a mark that records the position (the two ends of a
   capture group).  Match gives the match Python's re finds at a position:
   of the repetitions of a greedy quantifier that let the rest of the
   expression match, the longest; of a lazy one, the shortest. *)
Cls(cs, q) ==
  [k |-> "class", cs |-> cs, neg |-> FALSE, q |-> q, sub |-> <<>>, text |-> ""]

NotCls(cs, q) ==
  [k |-> "class", cs |-> cs, neg |-> TRUE, q |-> q, sub |-> <<>>, text |-> ""]

Grp(sub, q) ==
  [k |-> "group", cs |-> {}, neg |-> FALSE, q |-> q, sub |-> sub, text |-> ""]

Mark ==
  [k |-> "mark", cs |-> {}, neg |-> FALSE, q |-> "one", sub |-> <<>>, text |-> ""]

\* re.escape(text): the text itself
Lit(text) ==
  [k |-> "lit", cs |-> {}, neg |-> FALSE, q |-> "one", sub |-> <<>>, text |-> text]

InCls(it, c) == (c \in it.cs) # it.neg

\* the length of the longest run of characters of the class from i on
Run(it, s, i) ==
  MinOf({n \in 0..(Len(s) + 1 - i) :
           i + n > Len(s) \/ ~InCls(it, Ch(s, i + n))})

NoMatch == [ok |-> FALSE, end |-> 0, marks |-> <<>>]

RECURSIVE Match(_, _, _, _)

\* the rest of the expression after a repetition of lo to hi characters
Repeat(rest, s, i, marks, lo, hi, lazy) ==
  LET Chosen(ns) ==
        IF ns = {} THEN NoMatch
        ELSE Match(rest, s, i + (IF lazy THEN MinOf(ns) ELSE MaxOf(ns)), marks)
  IN Chosen({n \in lo..hi : Match(rest, s, i + n, marks).ok})

\* the items matched at position i (the next character is s[i]) with the
\* marks recorded so far: the end of the match (the position after it)
Match(items, s, i, marks) ==
  IF items = <<>> THEN [ok |-> TRUE, end |-> i, marks |-> marks]
  ELSE
    LET it == Head(items)
        rest == Tail(items)
    IN
    CASE it.k = "mark" -> Match(rest, s, i, Append(marks, i))
      [] it.k = "lit" ->
           IF StartsAt(s, i, it.text)
           THEN Match(rest, s, i + Len(it.text), marks) ELSE NoMatch
      [] it.k = "group" ->
           (CASE it.q = "one" -> Match(it.sub \o rest, s, i, marks)
              [] it.q = "opt" ->
                   LET r == Match(it.sub \o rest, s, i, marks) IN
                   IF r.ok THEN r ELSE Match(rest, s, i, marks)
              [] it.q = "star" ->
                   LET r == Match(it.sub \o items, s, i, marks) IN
                   IF r.ok THEN r ELSE Match(rest, s, i, marks)
              [] it.q = "plus" ->
                   Match(it.sub \o <<Grp(it.sub, "star")>> \o rest, s, i, marks))
      [] it.k = "class" ->
           (LET n == Run(it, s, i) IN
            CASE it.q = "one" ->
                   IF n >= 1 THEN Match(rest, s, i + 1, marks) ELSE NoMatch
              [] it.q = "star" -> Repeat(rest, s, i, marks, 0, n, FALSE)
              [] it.q = "plus" -> Repeat(rest, s, i, marks, 1, n, FALSE)
              [] it.q = "lazyplus" -> Repeat(rest, s, i, marks, 1, n, TRUE))

\* re.search from position i on: the leftmost match
Search(items, s, i) ==
  LET Found(j, r) == [ok |-> TRUE, start |-> j, end |-> r.end, marks |-> r.marks]
      Leftmost(at) ==
        IF at = {} THEN [ok |-> FALSE, start |-> 0, end |-> 0, marks |-> <<>>]
        ELSE Found(MinOf(at), Match(items, s, MinOf(at), <<>>))
  IN Leftmost({j \in i..(Len(s) + 1) : Match(items, s, j, <<>>).ok})

\* re.finditer from position i on: the matches from left to right, each
\* search starting where the match before it ended
RECURSIVE FindAll(_, _, _)
FindAll(items, s, i) ==
  LET Onward(r) ==
        IF ~r.ok THEN <<>>
        ELSE <<r>> \o FindAll(items, s, IF r.end = r.start THEN r.end + 1 ELSE r.end)
  IN Onward(Search(items, s, i))

\* re.sub: the text from position i on with each match replaced by its
\* replacement
RECURSIVE Splice(_, _, _, _)
Splice(s, ms, reps, i) ==
  IF ms = <<>> THEN From(s, i)
  ELSE Slice(s, i, ms[1].start - 1) \o reps[1]
         \o Splice(s, Tail(ms), Tail(reps), ms[1].end)

(* ------------------------- markdown normalisers ------------------------ *)
\* a normaliser that knows the escaped newline only
CleanMarkdownContent_NewlineOnly(markdown) ==
  IF markdown = "" THEN markdown ELSE Replace(markdown, "\\n", "\n")

\* lines 12-20: '\\n', '\\t', '\\r' (two characters each) become the
\* control characters
CleanMarkdownContent(markdown) ==
  IF markdown = "" THEN markdown
  ELSE Replace(Replace(Replace(markdown, "\\n", "\n"), "\\t", "\t"), "\\r", "\r")

\* line 201
clean_markdown_escapes(markdown) == CleanMarkdownContent(markdown)

Pipe == Cls({"|"}, "one")

Newline == Cls({"\n"}, "one")

\* line 221: (\|[^\n]+\|(?:\n\|[-:\s|]+\|)?(?:\n\|[^\n]+\|)*)
SpacingTablePattern ==
  <<Pipe, NotCls({"\n"}, "plus"), Pipe,
    Grp(<<Newline, Pipe, Cls({"-", ":", "|"} \cup Space, "plus"), Pipe>>, "opt"),
    Grp(<<Newline, Pipe, NotCls({"\n"}, "plus"), Pipe>>, "star")>>

\* lines 223-242: the replacement of one match, from the text around it
add_spacing(markdown, m) ==
  LET table == Slice(markdown, m.start, m.end - 1)
      before_table == Slice(markdown, IF m.start > 2 THEN m.start - 2 ELSE 1,
                            m.start - 1)
      after_table == Slice(markdown, m.end,
                           IF m.end + 1 <= Len(markdown) THEN m.end + 1
                           ELSE Len(markdown))
      t1 == IF m.start > 1 /\ before_table # "" /\ ~EndsWith(before_table, "\n\n")
            THEN "\n" \o table ELSE table
  IN IF m.end <= Len(markdown) /\ after_table # ""
        /\ ~StartsWith(after_table, "\n\n")
     THEN t1 \o "\n" ELSE t1

\* lines 214-247
ensure_table_spacing(markdown) ==
  IF markdown = "" THEN markdown
  ELSE LET Sub(ms) ==
             Splice(markdown, ms,
                    [j \in 1..Len(ms) |-> add_spacing(markdown, ms[j])], 1)
       IN Sub(FindAll(SpacingTablePattern, markdown, 1))

LineEnds == Cls({"\n", "\r"}, "plus")

\* line 168:
\* \|[^\n]+\|[\n\r]+\|[-:\s|]+\|[\n\r]+((?:\|[^\n]+\|[\n\r]+)+)
DuplicateTablePattern ==
  <<Pipe, NotCls({"\n"}, "plus"), Pipe, LineEnds,
    Pipe, Cls({"-", ":", "|"} \cup Space, "plus"), Pipe, LineEnds,
    Grp(<<Pipe, NotCls({"\n"}, "plus"), Pipe, LineEnds>>, "plus")>>

\* line 175: \|\s*([^|]+?)\s*\|
CellPattern ==
  <<Pipe, Cls(Space, "star"), Mark, NotCls({"|"}, "lazyplus"), Mark,
    Cls(Space, "star"), Pipe>>

\* line 176: re.findall gives the text of group 1 of every match
Cells(table_content) ==
  LET Group1(ms) ==
        [j \in 1..Len(ms) |->
           Slice(table_content, ms[j].marks[1], ms[j].marks[2] - 1)]
  IN Group1(FindAll(CellPattern, table_content, 1))

MinCellLen == 10

\* lines 180-184: the first line that holds the cell's text and ends with a
\* newline is removed, if the cell is long enough
RemoveLine(cleaned, cell0) ==
  LET Pattern(cell) ==
        <<NotCls({"\n"}, "star"), Lit(cell), NotCls({"\n"}, "star"), Newline>>
      Sub(r) ==
        IF r.ok THEN Slice(cleaned, 1, r.start - 1) \o From(cleaned, r.end)
        ELSE cleaned
      Checked(cell) ==
        IF Len(cell) > MinCellLen THEN Sub(Search(Pattern(cell), cleaned, 1))
        ELSE cleaned
  IN Checked(Strip(cell0))

RECURSIVE RemoveLines(_, _)
RemoveLines(cleaned, cells) ==
  IF cells = <<>> THEN cleaned
  ELSE RemoveLines(RemoveLine(cleaned, cells[1]), Tail(cells))

\* lines 172-184: the tables are found in the text as given, the lines are
\* removed from the text as cleaned so far
RECURSIVE CleanTables(_, _, _)
CleanTables(markdown, tables, cleaned) ==
  IF tables = <<>> THEN cleaned
  ELSE CleanTables(markdown, Tail(tables),
         RemoveLines(cleaned,
           Cells(Slice(markdown, tables[1].start, tables[1].end - 1))))

\* lines 164-186
clean_duplicate_table_content(markdown) ==
  CleanTables(markdown, FindAll(DuplicateTablePattern, markdown, 1), markdown)

\* line 62: ,(\s*[}\]])
TrailingCommaPattern ==
  <<Cls({","}, "one"), Mark, Cls(Space, "star"), Cls({"}", "]"}, "one"), Mark>>

\* line 62: re.sub(r',(\s*[}\]])', r'\1', content)
RemoveTrailingCommas(s) ==
  LET Sub(ms) ==
        Splice(s, ms,
               [j \in 1..Len(ms) |-> Slice(s, ms[j].marks[1], ms[j].marks[2] - 1)],
               1)
  IN Sub(FindAll(TrailingCommaPattern, s, 1))

(* ------------------------------ JSON values ---------------------------- *)
\* a Python value made by json.loads: its type, its text (str, int, float)
\* and its members (list: values; dict: key/value pairs in insertion order)
Val(t, s, items) == [t |-> t, s |-> s, items |-> items]

PyNone == Val("NoneType", "", <<>>)

PyBool(b) == Val("bool", IF b THEN "true" ELSE "false", <<>>)

PyStr(s) == Val("str", s, <<>>)

PyInt(s) == Val("int", s, <<>>)

PyFloat(s) == Val("float", s, <<>>)

PyList(items) == Val("list", "", items)

PyDict(items) == Val("dict", "", items)

Pair(k, v) == [k |-> k, v |-> v]

HasKey(d, k) == \E j \in 1..Len(d.items) : d.items[j].k = k

Get(d, k) == d.items[CHOOSE j \in 1..Len(d.items) : d.items[j].k = k].v

\* d[k] = v: a key that is there keeps its place
Put(d, k, v) ==
  IF HasKey(d, k)
  THEN PyDict([j \in 1..Len(d.items) |->
               IF d.items[j].k = k THEN Pair(k, v) ELSE d.items[j]])
  ELSE PyDict(Append(d.items, Pair(k, v)))

(* ------------------------------ json.loads ----------------------------- *)
\* The texts of the model hold no \b, \f or \uXXXX escape and no number
\* with a fraction or an exponent; the decoder is that of json.decoder and
\* json.scanner for all other text.
Failed == [ok |-> FALSE, v |-> PyNone, end |-> 0]

Parsed(v, end) == [ok |-> TRUE, v |-> v, end |-> end]

Control == {"\n", "\t", "\r"}

Unescape(e) ==
  CASE e = "n" -> "\n" [] e = "t" -> "\t" [] e = "r" -> "\r" [] OTHER -> e

\* json.decoder.py_scanstring, strict: from position i, inside the quotes
RECURSIVE ScanString(_, _, _)
ScanString(s, i, acc) ==
  LET stops == {j \in i..Len(s) : Ch(s, j) \in {"\"", "\\"} \cup Control} IN
  IF stops = {} THEN Failed
  ELSE LET j == MinOf(stops)
           chunk == acc \o Slice(s, i, j - 1)
       IN CASE Ch(s, j) = "\"" -> Parsed(PyStr(chunk), j + 1)
            [] Ch(s, j) = "\\" ->
                 IF j + 1 <= Len(s) /\ Ch(s, j + 1) \in {"\"", "\\", "/", "n", "t", "r"}
                 THEN ScanString(s, j + 2, chunk \o Unescape(Ch(s, j + 1)))
                 ELSE Failed
            [] OTHER -> Failed

Digits == {"0", "1", "2", "3", "4", "5", "6", "7", "8", "9"}

\* json.scanner.NUMBER_RE, the integer part: -?(?:0|[1-9][0-9]*); the
\* position after the number, 0 if there is none
NumberEnd(s, i) ==
  LET d == IF Ch(s, i) = "-" THEN i + 1 ELSE i IN
  IF d > Len(s) \/ Ch(s, d) \notin Digits THEN 0
  ELSE IF Ch(s, d) = "0" THEN d + 1
  ELSE d + Run(Cls(Digits, "one"), s, d)

\* int(text) as str(int) writes it
IntText(lexeme) == IF lexeme = "-0" THEN "0" ELSE lexeme

RECURSIVE ScanOnce(_, _)
RECURSIVE ObjectMembers(_, _, _)
RECURSIVE ArrayItems(_, _, _)

\* json.decoder.JSONObject: from position i, after the brace
JSONObject(s, i) ==
  LET Open(e) ==
        IF e <= Len(s) /\ Ch(s, e) = "}" THEN Parsed(PyDict(<<>>), e + 1)
        ELSE IF e > Len(s) \/ Ch(s, e) # "\"" THEN Failed
        ELSE ObjectMembers(s, e + 1, PyDict(<<>>))
  IN Open(IF Ch(s, i) # "\"" THEN LStripFrom(s, i) ELSE i)

\* the loop of JSONObject: from position i, inside the quotes of a key
ObjectMembers(s, i, d) ==
  LET NextKey(q, d1) ==
        IF q > Len(s) \/ Ch(s, q) # "\"" THEN Failed
        ELSE ObjectMembers(s, q + 1, d1)
      After(d1, n) ==
        IF n > Len(s) THEN Failed
        ELSE IF Ch(s, n) = "}" THEN Parsed(d1, n + 1)
        ELSE IF Ch(s, n) # "," THEN Failed
        ELSE NextKey(LStripFrom(s, n + 1), d1)
      Member(key, value) ==
        IF ~value.ok THEN Failed
        ELSE After(Put(d, key.v.s, value.v), LStripFrom(s, value.end))
      Colon(key, c) ==
        IF c > Len(s) \/ Ch(s, c) # ":" THEN Failed
        ELSE Member(key, ScanOnce(s, LStripFrom(s, c + 1)))
      Key(key) ==
        IF ~key.ok THEN Failed ELSE Colon(key, LStripFrom(s, key.end))
  IN Key(ScanString(s, i, ""))

\* json.decoder.JSONArray: from position i, after the bracket
JSONArray(s, i) ==
  LET Open(e) ==
        IF e <= Len(s) /\ Ch(s, e) = "]" THEN Parsed(PyList(<<>>), e + 1)
        ELSE ArrayItems(s, e, <<>>)
  IN Open(LStripFrom(s, i))

\* the loop of JSONArray: from position i, where a value is to start
ArrayItems(s, i, items) ==
  LET After(items1, n) ==
        IF n > Len(s) THEN Failed
        ELSE IF Ch(s, n) = "]" THEN Parsed(PyList(items1), n + 1)
        ELSE IF Ch(s, n) # "," THEN Failed
        ELSE ArrayItems(s, LStripFrom(s, n + 1), items1)
      Item(value) ==
        IF ~value.ok THEN Failed
        ELSE After(Append(items, value.v), LStripFrom(s, value.end))
  IN Item(ScanOnce(s, i))

\* json.scanner.py_make_scanner._scan_once: the value that starts at i
ScanOnce(s, i) ==
  IF i > Len(s) THEN Failed
  ELSE
    LET c == Ch(s, i) IN
    CASE c = "\"" -> ScanString(s, i + 1, "")
      [] c = "{" -> JSONObject(s, i + 1)
      [] c = "[" -> JSONArray(s, i + 1)
      [] c = "n" /\ StartsAt(s, i, "null") -> Parsed(PyNone, i + 4)
      [] c = "t" /\ StartsAt(s, i, "true") -> Parsed(PyBool(TRUE), i + 4)
      [] c = "f" /\ StartsAt(s, i, "false") -> Parsed(PyBool(FALSE), i + 5)
      [] NumberEnd(s, i) # 0 ->
           Parsed(PyInt(IntText(Slice(s, i, NumberEnd(s, i) - 1))), NumberEnd(s, i))
      [] c = "N" /\ StartsAt(s, i, "NaN") -> Parsed(PyFloat("NaN"), i + 3)
      [] c = "I" /\ StartsAt(s, i, "Infinity") -> Parsed(PyFloat("Infinity"), i + 8)
      [] c = "-" /\ StartsAt(s, i, "-Infinity") -> Parsed(PyFloat("-Infinity"), i + 9)
      [] OTHER -> Failed

\* json.loads(s): JSONDecoder.decode; not ok is JSONDecodeError
Loads(s) ==
  LET Whole(r) ==
        IF r.ok /\ LStripFrom(s, r.end) = Len(s) + 1 THEN r ELSE Failed
  IN Whole(ScanOnce(s, LStripFrom(s, 1)))

(* ------------------------------ json.dumps ----------------------------- *)
\* json.encoder.py_encode_basestring (ensure_ascii=False)
EncodeString(s) ==
  "\"" \o Replace(Replace(Replace(Replace(Replace(s,
            "\\", "\\\\"), "\"", "\\\""), "\n", "\\n"), "\r", "\\r"), "\t", "\\t")
       \o "\""

RECURSIVE Dumps(_, _, _)
RECURSIVE DumpsItems(_, _, _, _)

\* the members from the j-th on, each but the first after the separator
DumpsItems(v, j, isep, ksep) ==
  IF j > Len(v.items) THEN ""
  ELSE (IF j > 1 THEN isep ELSE "")
       \o (IF v.t = "dict"
           THEN EncodeString(v.items[j].k) \o ksep \o Dumps(v.items[j].v, isep, ksep)
           ELSE Dumps(v.items[j], isep, ksep))
       \o DumpsItems(v, j + 1, isep, ksep)

\* json.dumps(v, ensure_ascii=False, separators=(isep, ksep))
Dumps(v, isep, ksep) ==
  CASE v.t = "str" -> EncodeString(v.s)
    [] v.t = "NoneType" -> "null"
    [] v.t \in {"int", "float", "bool"} -> v.s
    [] v.t = "list" -> "[" \o DumpsItems(v, 1, isep, ksep) \o "]"
    [] v.t = "dict" -> "{" \o DumpsItems(v, 1, isep, ksep) \o "}"

(* ----------------------- clean_and_validate_json ----------------------- *)
\* lines 68-75
markdown_fields ==
  <<"draft_answer_markdown", "revised_answer_markdown", "final_answer_markdown",
    "answer_markdown", "final_answer", "answer">>

\* The backtick, which a TLA+ string cannot hold, is written ^ in all texts.
Backtick == "^"

\* the code-fence marker of lines 38 and 44
FenceMark == Backtick \o Backtick \o Backtick

\* lines 40-50: the lines between the first fence and the next one
RECURSIVE FenceLines(_, _, _)
FenceLines(lines, j, in_json) ==
  IF j > Len(lines) THEN <<>>
  ELSE IF StartsWith(Strip(lines[j]), FenceMark)
       THEN IF in_json THEN <<>> ELSE FenceLines(lines, j + 1, TRUE)
       ELSE IF in_json THEN <<lines[j]>> \o FenceLines(lines, j + 1, TRUE)
       ELSE FenceLines(lines, j + 1, FALSE)

\* lines 38-51
StripFence(s) ==
  IF StartsWith(s, FenceMark)
  THEN Strip(JoinLines(FenceLines(SplitLines(s), 1, FALSE)))
  ELSE s

\* lines 54-58: from the first { to the last }
ExtractObject(s) ==
  LET start_idx == Find(s, "{")
      end_idx == RFind(s, "}")
  IN IF start_idx # 0 /\ end_idx # 0 /\ end_idx > start_idx
     THEN Slice(s, start_idx, end_idx) ELSE s

\* lines 80-84
NormalizeText(text) ==
  clean_duplicate_table_content(ensure_table_spacing(CleanMarkdownContent(text)))

\* `field in v` (line 78) for the types that have the operator
FieldIn(v, field) ==
  CASE v.t = "dict" -> HasKey(v, field)
    [] v.t = "list" ->
         \E j \in 1..Len(v.items) : v.items[j] = PyStr(field)
    [] v.t = "str" -> Contains(v.s, field)

NoException == [type |-> "none", text |-> ""]

Exception(type, text) == [type |-> type, text |-> text]

\* the TypeError of line 78, if the v value is no dict
FieldError(v, field) ==
  CASE v.t = "dict" -> NoException
    [] v.t \in {"NoneType", "bool", "int", "float"} ->
         Exception("TypeError",
                   "argument of type '" \o v.t \o "' is not iterable")
    [] v.t = "list" /\ FieldIn(v, field) ->
         Exception("TypeError", "list indices must be integers or slices, not str")
    [] v.t = "str" /\ FieldIn(v, field) ->
         Exception("TypeError", "string indices must be integers, not 'str'")
    [] OTHER -> NoException

\* lines 77-84 for the fields from the j-th on: the exception raised and
\* the value v is bound to
RECURSIVE NormalizeFields(_, _)
NormalizeFields(v, j) ==
  IF j > Len(markdown_fields) THEN [exc |-> NoException, parsed |-> v]
  ELSE
    LET field == markdown_fields[j]
        e == FieldError(v, field)
    IN
    IF e # NoException THEN [exc |-> e, parsed |-> v]
    ELSE IF v.t = "dict" /\ HasKey(v, field)
            /\ Get(v, field).t = "str"
         THEN NormalizeFields(
                Put(v, field, PyStr(NormalizeText(Get(v, field).s))),
                j + 1)
         ELSE NormalizeFields(v, j + 1)

\* lines 103-112: the position of the first } that brings the nesting
\* depth back to zero, 0 if there is none
LastValidPos(s) ==
  LET Count(c, i) == Cardinality({j \in 1..i : Ch(s, j) = c})
      at == {i \in 1..Len(s) :
               Ch(s, i) = "}" /\ Count("{", i) = Count("}", i)}
  IN IF at = {} THEN 0 ELSE MinOf(at)

FallbackLimit == 1000

\* lines 140-144
ParseFallback(s) ==
  PyDict(<<Pair("sub_topic", PyStr("Unknown")),
           Pair("final_answer",
                PyStr(IF s # "" THEN Slice(s, 1, FallbackLimit)
                      ELSE "No response generated")),
           Pair("error", PyStr("json_parsing_failed"))>>)

\* lines 153-157
ErrorFallback(e) ==
  PyDict(<<Pair("sub_topic", PyStr("Unknown")),
           Pair("final_answer", PyStr("Processing error occurred")),
           Pair("error", PyStr(e.text))>>)

\* The frame of a call: the argument as given (raw), the local variables,
\* the step the call is at, the exception in flight (or caught last) and
\* what the call returned: an object (returned) if return_dict, else a str
\* (returned_text).  parsed is None until line 65 binds it.
Frame(s, rd) ==
  [raw |-> s, return_dict |-> rd, step |-> "strip",
   content |-> s, parsed |-> PyNone, fields_bound |-> FALSE,
   exc |-> NoException, returned |-> PyNone, returned_text |-> ""]

\* return value (a Python object) / return text (a str)
ReturnValue(f, v) == [f EXCEPT !.step = "returned", !.returned = v]

ReturnText(f, s) == [f EXCEPT !.step = "returned", !.returned_text = s]

\* lines 89-94, 130-134: the object, or its compact serialisation
ReturnParsed(f) ==
  IF f.return_dict THEN ReturnValue(f, f.parsed)
  ELSE ReturnText(f, Dumps(f.parsed, ",", ":"))

\* lines 146-149, 159-162: the fallback, or its default serialisation
ReturnFallback(f, fallback) ==
  IF f.return_dict THEN ReturnValue(f, fallback)
  ELSE ReturnText(f, Dumps(fallback, ", ", ": "))

\* lines 96 and 151: the handler an exception of the outer try goes to
Raise(f, e) ==
  [f EXCEPT !.exc = e,
            !.step = IF e.type = "JSONDecodeError" THEN "recover" ELSE "unexpected"]

\* variant: line 136 catches json.JSONDecodeError only
RecoveryCatches_DecodeErrorOnly(e) == e.type = "JSONDecodeError"

\* line 136: `except Exception` catches whatever the recovery raises
RecoveryCatches(e) == TRUE

\* an exception of the inner try (lines 101-134): to line 137 and on to the
\* fallback if caught, else out of the function
RecoveryRaise(f, e) ==
  [f EXCEPT !.exc = e, !.step = IF RecoveryCatches(e) THEN "fallback" ELSE "raised"]

DecodeError == Exception("JSONDecodeError", "")

UnboundError ==
  Exception("UnboundLocalError",
            "cannot access local variable 'markdown_fields' where it is not associated with a value")

\* line 35
DoStrip(f) == [f EXCEPT !.content = Strip(@), !.step = "fence"]

\* lines 38-51
DoFence(f) == [f EXCEPT !.content = StripFence(@), !.step = "extract"]

\* lines 54-58
DoExtract(f) == [f EXCEPT !.content = ExtractObject(@), !.step = "commas"]

\* line 62
DoCommas(f) == [f EXCEPT !.content = RemoveTrailingCommas(@), !.step = "loads"]

\* line 65
DoLoads(f) ==
  LET Bind(r) ==
        IF r.ok THEN [f EXCEPT !.parsed = r.v, !.step = "fields"]
        ELSE Raise(f, DecodeError)
  IN Bind(Loads(f.content))

\* lines 68-86
DoFields(f) ==
  LET Loop(f1, r) ==
        IF r.exc # NoException THEN Raise(f1, r.exc)
        ELSE [f1 EXCEPT !.parsed = r.parsed, !.step = "result"]
  IN Loop([f EXCEPT !.fields_bound = TRUE], NormalizeFields(f.parsed, 1))

\* lines 97-137: the handler of JSONDecodeError up to the fallback
DoRecover(f) ==
  LET \* lines 119-134
      Loop(f2, n) ==
        IF n.exc # NoException THEN RecoveryRaise(f2, n.exc)
        ELSE ReturnParsed([f2 EXCEPT !.parsed = n.parsed])
      \* line 119: markdown_fields is a local that only line 68 binds
      Bound(f2) ==
        IF ~f2.fields_bound THEN RecoveryRaise(f2, UnboundError)
        ELSE Loop(f2, NormalizeFields(f2.parsed, 1))
      \* line 116
      Bind(f1, r) ==
        IF ~r.ok THEN RecoveryRaise(f1, DecodeError)
        ELSE Bound([f1 EXCEPT !.parsed = r.v])
      \* line 115
      Truncated(f1) == Bind(f1, Loads(f1.content))
      \* lines 103-114
      Found(last_valid_pos) ==
        IF last_valid_pos = 0 THEN [f EXCEPT !.step = "fallback"]
        ELSE Truncated([f EXCEPT !.content = Slice(@, 1, last_valid_pos)])
  IN Found(LastValidPos(f.content))

\* lines 140-149
DoFallback(f) == ReturnFallback(f, ParseFallback(f.content))

\* lines 151-162
DoUnexpected(f) == ReturnFallback(f, ErrorFallback(f.exc))

\* the call's frame is f
CallIs(f) ==
  /\ raw = f.raw
  /\ return_dict = f.return_dict
  /\ step = f.step
  /\ content = f.content
  /\ parsed = f.parsed
  /\ fields_bound = f.fields_bound
  /\ exc = f.exc
  /\ returned = f.returned
  /\ returned_text = f.returned_text

\* clean_and_validate_json is not called
NoCall == CallIs([Frame("", FALSE) EXCEPT !.step = "none"])

\* a call of a markdown normaliser: the function and its argument
MarkdownCallIs(fn, arg, at, out) ==
  /\ md_fn = fn
  /\ md_arg = arg
  /\ md_step = at
  /\ md_out = out

\* no normaliser is called on its own
NoMarkdownCall == MarkdownCallIs("none", PyNone, "none", PyNone)

\* an executor, and where its call of process_graphrag is
ExecutorIs(enabled, at, data, sent, value) ==
  /\ ex_enabled = enabled
  /\ ex_pc = at
  /\ ex_data = data
  /\ ex_sent = sent
  /\ ex_ret = value

\* the plugin is used without an executor
NoExecutor == ExecutorIs(FALSE, "none", PyNone, <<>>, PyNone)

\* a call of the server's call_tool
ServerCallIs(at, name, arguments, response) ==
  /\ sv_step = at
  /\ sv_name = name
  /\ sv_arguments = arguments
  /\ sv_response = response

\* the server is not part of the run
NoServerCall == ServerCallIs("none", "", PyNone, <<>>)

(* ------------------------- the pipeline's inputs ----------------------- *)
\* model output as it comes: nothing, prose, objects, objects with a
\* trailing comma, values that are no object, an object followed by more
\* text, a markdown field with escapes, a markdown field with a table
Bodies ==
  {"",
   "no json here",
   "{\"final_answer\":\"hi\"}",
   "{\"final_answer\": \"hi\",}",
   "{\"k\":[1,2,],\"answer\":\"a\\\\nb\"}",
   "{\"k\":{\"j\":1},\"sub_topic\":\"s\"}",
   "{\"note\":\"x,}\"}",
   "{\"note\":\"x,}\",}",
   "{\"k\":1}{\"j\":2}",
   "{\"k\":1} and }",
   "} {",
   "{\"final_answer\":\"t\\n|a|b|\\n|-|-|\\n|c|d|\\nz\"}",
   "[1,2]",
   "[\"answer\"]",
   "\"answer\"",
   "\"text\"",
   "5",
   "null"}

\* the text without its last n characters: output cut off by a token limit
Cut(s, n) == Slice(s, 1, Len(s) - n)

Wrappers == {"bare", "padded", "prose", "fenced", "fenced_more", "open_fence"}

\* the text as a model wraps it
Wrap(w, s) ==
  CASE w = "bare" -> s
    [] w = "padded" -> " \n" \o s \o "\n"
    [] w = "prose" -> "Here you are: " \o s \o " Done."
    [] w = "fenced" -> FenceMark \o "json\n" \o s \o "\n" \o FenceMark
    [] w = "fenced_more" ->
         FenceMark \o "\n" \o s \o "\n" \o FenceMark \o "\nUse {braces}"
    [] w = "open_fence" -> FenceMark \o "json\n" \o s

Inputs == {Wrap(w, Cut(b, n)) : w \in Wrappers, b \in Bodies, n \in 0..MaxCut}

(* ------------------------------ actions -------------------------------- *)
EnsureOps == {"ensure"} \cup ToolNames

\* tasks inside _ensure_mcp_connection that may still create a client
Pending ==
  {t \in Tasks : /\ op[t] \in EnsureOps
                 /\ \/ pc[t] \in {"e_probe", "e_lock", "e_sleep"}
                    \/ pc[t] \in {"c_sess", "c_client"} /\ ret[t] = "line68"}

\* the bound of the model: clients created
CanConnect == nClients + Cardinality(Pending) < MaxClients

\* a task that runs no call can start one
Free(t) == pc[t] \in {"idle", "done"}

Begin(s, t, o) == [s EXCEPT !.op[t] = o, !.result[t] = "none"]

\* a task calls _ensure_mcp_connection()
StartEnsure(t) ==
  /\ Free(t) /\ CanConnect
  /\ \E ans \in BOOLEAN : Becomes(EnsureEntry(Begin(Cur, t, "ensure"), t, ans))

\* a task calls cleanup()
StartCleanup(t) ==
  /\ Free(t)
  /\ Becomes(CleanupEntry(Begin(Cur, t, "cleanup"), t, "top"))

\* a task calls index_documents, local_search or global_search
StartTool(t) ==
  /\ Free(t) /\ CanConnect
  /\ \E name \in ToolNames, files \in BOOLEAN, ans \in BOOLEAN :
       /\ name # "index_documents" => files
       /\ Becomes(ToolEntry([Begin(Cur, t, name) EXCEPT !.argOk[t] = files],
                            t, ans))

\* the caller of a finished call goes on
Continue(t) ==
  /\ pc[t] = "done"
  /\ Becomes(Drop(Cur, t))

\* a task waiting for the lock gets it (line 74), or its sleep ends (line 82)
Wake(t) ==
  /\ pc[t] \in {"e_lock", "e_sleep"}
  /\ IF pc[t] = "e_lock"
     THEN /\ lockHolder = 0 /\ lockQueue # <<>> /\ Head(lockQueue) = t
          /\ Becomes(Locked([Cur EXCEPT !.lockHolder = t,
                                        !.lockQueue = Tail(@)], t))
     ELSE Becomes(AfterSleep(Cur, t))

\* the probe's list_tools() (line 64) answers or fails
ProbeDone(t) ==
  /\ pc[t] = "e_probe"
  /\ Becomes(AfterProbe(Cur, t, answer[t]))

\* mcp_session.__aexit__ (line 143) returns or raises
SessExitDone(t) ==
  /\ pc[t] = "c_sess"
  /\ \E ok \in BOOLEAN : Becomes(AfterSessExit(Cur, t, ok))

\* mcp_client.__aexit__ (line 153) returns or raises
ClientExitDone(t) ==
  /\ pc[t] = "c_client"
  /\ \E ok \in BOOLEAN : Becomes(AfterClientExit(Cur, t, ok))

\* mcp_client.__aenter__ (line 115) returns the streams or raises
SpawnDone(t) ==
  /\ pc[t] = "e_spawn"
  /\ \E ok \in BOOLEAN : Becomes(AfterSpawn(Cur, t, ok))

\* mcp_session.__aenter__ (line 117) returns or raises
SessEnterDone(t) ==
  /\ pc[t] = "e_enter"
  /\ \E ok \in BOOLEAN : Becomes(AfterSessEnter(Cur, t, ok))

\* mcp_session.initialize() (line 118) returns or raises
InitializeDone(t) ==
  /\ pc[t] = "e_init"
  /\ \E ok \in BOOLEAN, ans \in BOOLEAN :
       Becomes(AfterInitialize(Cur, t, ok, ans))

\* mcp_session.list_tools() (line 120) answers or fails
ListToolsDone(t) ==
  /\ pc[t] = "e_list"
  /\ Becomes(AfterListTools(Cur, t, answer[t]))

\* mcp_session.call_tool() (lines 193, 236, 278) answers or fails
CallToolDone(t) ==
  /\ pc[t] = "t_call"
  /\ \E out \in {"content", "empty", "raise"} :
       Becomes(AfterCallTool(Cur, t, out))

(* ------------------------- the pipeline's actions ---------------------- *)
JCur ==
  [raw |-> raw, return_dict |-> return_dict, step |-> step,
   content |-> content, parsed |-> parsed, fields_bound |-> fields_bound,
   exc |-> exc, returned |-> returned, returned_text |-> returned_text]

JBecomes(f) ==
  /\ raw' = f.raw
  /\ return_dict' = f.return_dict
  /\ step' = f.step
  /\ content' = f.content
  /\ parsed' = f.parsed
  /\ fields_bound' = f.fields_bound
  /\ exc' = f.exc
  /\ returned' = f.returned
  /\ returned_text' = f.returned_text
  /\ UNCHANGED <<pvars, mvars, evars, svars>>

StripContent == step = "strip" /\ JBecomes(DoStrip(JCur))

Fence == step = "fence" /\ JBecomes(DoFence(JCur))

Extract == step = "extract" /\ JBecomes(DoExtract(JCur))

Commas == step = "commas" /\ JBecomes(DoCommas(JCur))

ParseContent == step = "loads" /\ JBecomes(DoLoads(JCur))

Fields == step = "fields" /\ JBecomes(DoFields(JCur))

ReturnResult == step = "result" /\ JBecomes(ReturnParsed(JCur))

Recover == step = "recover" /\ JBecomes(DoRecover(JCur))

Fallback == step = "fallback" /\ JBecomes(DoFallback(JCur))

Unexpected == step = "unexpected" /\ JBecomes(DoUnexpected(JCur))

(* --------------------------- specifications ---------------------------- *)
\* Concurrent tasks call _ensure_mcp_connection and cleanup on one plugin.
Init ==
  /\ \E env \in BOOLEAN, avail \in BOOLEAN, venv \in BOOLEAN :
       PluginInit(env, avail, venv)
  /\ NoCall
  /\ NoMarkdownCall
  /\ NoExecutor
  /\ NoServerCall

Next ==
  \E t \in Tasks :
    \/ StartEnsure(t)
    \/ StartCleanup(t)
    \/ Continue(t)
    \/ Wake(t)
    \/ ProbeDone(t)
    \/ SessExitDone(t)
    \/ ClientExitDone(t)
    \/ SpawnDone(t)
    \/ SessEnterDone(t)
    \/ InitializeDone(t)
    \/ ListToolsDone(t)

Spec == Init /\ [][Next]_vars

\* A cold, enabled plugin; every task calls _ensure_mcp_connection once, and
\* the calls overlap: a call starts before any call of the batch has returned.
InitCold ==
  /\ \E venv \in BOOLEAN : PluginInit(TRUE, TRUE, venv)
  /\ NoCall
  /\ NoMarkdownCall
  /\ NoExecutor
  /\ NoServerCall

ColdStart(t) ==
  /\ pc[t] = "idle" /\ \A u \in Tasks : pc[u] # "done"
  /\ StartEnsure(t)

NextCold ==
  \E t \in Tasks :
    \/ ColdStart(t)
    \/ Wake(t)
    \/ ProbeDone(t)
    \/ SessExitDone(t)
    \/ ClientExitDone(t)
    \/ SpawnDone(t)
    \/ SessEnterDone(t)
    \/ InitializeDone(t)
    \/ ListToolsDone(t)

SpecCold == InitCold /\ [][NextCold]_vars

\* One caller makes its calls one after the other (no concurrency).
First(t) == \A u \in Tasks : t <= u

NextSeq ==
  \E t \in Tasks :
    /\ First(t)
    /\ \/ StartEnsure(t)
       \/ StartCleanup(t)
       \/ StartTool(t)
       \/ ProbeDone(t)
       \/ SessExitDone(t)
       \/ ClientExitDone(t)
       \/ SpawnDone(t)
       \/ SessEnterDone(t)
       \/ InitializeDone(t)
       \/ ListToolsDone(t)
       \/ CallToolDone(t)

SpecSeq == Init /\ [][NextSeq]_vars

\* A disabled plugin (GRAPHRAG_ENABLED not true, or no MCP library).
InitDisabled ==
  /\ \E env \in BOOLEAN, avail \in BOOLEAN, venv \in BOOLEAN :
       ~(env /\ avail) /\ PluginInit(env, avail, venv)
  /\ NoCall
  /\ NoMarkdownCall
  /\ NoExecutor
  /\ NoServerCall

NextDisabled ==
  \E t \in Tasks :
    \/ StartEnsure(t)
    \/ StartCleanup(t)
    \/ StartTool(t)
    \/ Continue(t)

SpecDisabled == InitDisabled /\ [][NextDisabled]_vars

\* clean_and_validate_json called once, on a text of Inputs
InitJson ==
  /\ PluginInit(TRUE, TRUE, TRUE)
  /\ \E s \in Inputs, rd \in BOOLEAN : CallIs(Frame(s, rd))
  /\ NoMarkdownCall
  /\ NoExecutor
  /\ NoServerCall

NextJson ==
  \/ StripContent
  \/ Fence
  \/ Extract
  \/ Commas
  \/ ParseContent
  \/ Fields
  \/ ReturnResult
  \/ Recover
  \/ Fallback
  \/ Unexpected

SpecJson == InitJson /\ [][NextJson]_vars

(* ======================= properties of the plugin ====================== *)
\* task t's call returns in this step
Returns(t) == pc[t] # "done" /\ pc'[t] = "done"

InCleanup(t) == pc[t] \in {"c_sess", "c_client"}

\* the awaits of the connection attempt (lines 115-120)
ConnectPcs == {"e_spawn", "e_enter", "e_init", "e_list"}

\* C1 (as claimed): in a batch of overlapping _ensure_mcp_connection calls on
\* a cold plugin, at most one subprocess is spawned in total, also when the
\* first attempt fails after its subprocess was spawned.
C1_AtMostOneSpawn == nSpawned <= 1

\* C2 (as claimed): all calls of such a batch return the same value; no
\* caller gets false while another caller of the batch gets true.
C2_SameValue ==
  \A t \in Tasks, u \in Tasks :
    pc[t] = "done" /\ pc[u] = "done" => result[t] = result[u]

\* C3 (as claimed): at most one spawned transport has had no shutdown
\* attempt; no subprocess is spawned while an earlier one is still live.
C3_AtMostOneLive == Cardinality({k \in Objs : transport[k] = "running"}) <= 1

\* a session is established: its handshake is complete, the call that made
\* it is over, and nothing has shut it down
Established(k) == sessState[k] = "ready" /\ ~is_connecting

\* C4: with one caller, a call whose probe is answered returns true and
\* creates no client and keeps the session; a client is created only when no
\* session is Ready; and an established session is discarded only by the
\* cleanup of a failed probe (line 68) or by an explicit cleanup().
C4_ReuseBeforeReconnect ==
  [][\A t \in Tasks :
       /\ (op[t] = "ensure" /\ pc[t] = "e_probe" /\ answer[t])
            => /\ pc'[t] = "done" /\ result'[t] = "true"
               /\ nClients' = nClients /\ nSpawned' = nSpawned
               /\ mcp_session' = mcp_session /\ mcp_client' = mcp_client
       /\ nClients' # nClients => \A k \in Objs : sessState[k] # "ready"
       /\ \A k \in Objs :
            (Established(k) /\ sessState'[k] # "ready")
              => \E u \in Tasks :
                   \/ pc[u] = "e_probe" /\ ~answer[u]
                   \/ Free(u) /\ op'[u] = "cleanup"]_vars

\* a probe of an established session is about to be answered
C4_Witness ==
  \E t \in Tasks : /\ op[t] = "ensure" /\ pc[t] = "e_probe" /\ answer[t]
                   /\ mcp_session # 0 /\ Established(mcp_session)

\* C5 (as claimed): whenever _ensure_mcp_connection returns true, mcp_session
\* is set and names a session whose handshake is complete and that no
\* cleanup has shut down.
C5_TrueMeansReady ==
  [][\A t \in Tasks :
       (Returns(t) /\ op[t] = "ensure" /\ result'[t] = "true")
         => mcp_session' # 0 /\ sessState'[mcp_session'] = "ready"]_vars

\* C6: with one caller, cleanup() never raises and leaves both handles null,
\* and after the session's shutdown, failed or not, the transport's shutdown
\* is attempted whenever there is a transport.
C6_CleanupComplete ==
  /\ [](\A t \in Tasks :
          (pc[t] = "done" /\ op[t] = "cleanup")
            => result[t] = "returned" /\ mcp_session = 0 /\ mcp_client = 0)
  /\ [][\A t \in Tasks :
          (pc[t] = "c_sess" /\ mcp_client # 0)
            => /\ pc'[t] = "c_client" /\ mcp_session' = 0
               /\ transport'[mcp_client] = "stopping"]_vars

\* the session's shutdown has failed and the transport's is under way
C6_Witness ==
  \E t \in Tasks : op[t] = "cleanup" /\ pc[t] = "c_client" /\ sessFail[t]

\* C7: with one caller, a cleanup() called right after a cleanup() returns at
\* once without raising, makes no shutdown attempt and changes nothing.
C7_Idempotent ==
  [][\A t \in Tasks :
       (pc[t] = "done" /\ op[t] = "cleanup" /\ op'[t] = "cleanup")
         => /\ result[t] = "returned"
            /\ pc'[t] = "done" /\ result'[t] = "returned"
            /\ UNCHANGED <<mcp_session, mcp_client, transport, sessState,
                           nClients, nSpawned, is_connecting, lockHolder,
                           lockQueue>>]_vars

\* a cleanup() has returned on a plugin that had spawned a subprocess; a
\* second cleanup() from here is the claim's case
C7_Witness ==
  \E t \in Tasks : /\ pc[t] = "done" /\ op[t] = "cleanup"
                   /\ nSpawned > 0 /\ \E k \in Objs : transport[k] = "stopping"

\* C8: a connection attempt that fails at any step ends in cleanup() and the
\* return of false, never in an exception; both handles are null when the
\* call returns; and no client is created while the failure is handled.
C8_ConnectFailure ==
  /\ [](\A t \in Tasks :
          /\ (pc[t] = "done" /\ op[t] = "ensure")
               => result[t] \in {"true", "false"}
          /\ ~venv_exists => nClients = 0 /\ mcp_client = 0 /\ mcp_session = 0)
  /\ [][\A t \in Tasks :
          /\ (InCleanup(t) /\ ret[t] = "line128")
               => /\ nClients' = nClients
                  /\ Returns(t) => /\ result'[t] = "false"
                                   /\ mcp_session' = 0 /\ mcp_client' = 0
                                   /\ ~is_connecting' /\ lockHolder' # t
          /\ (pc[t] \in ConnectPcs /\ pc'[t] \notin ConnectPcs)
               => \/ /\ pc'[t] = "done" /\ result'[t] = "true"
                     /\ pc[t] = "e_list" /\ answer[t]
                  \/ /\ pc'[t] = "done" /\ result'[t] = "false"
                     /\ mcp_session' = 0 /\ mcp_client' = 0
                  \/ InCleanup(t)' /\ ret'[t] = "line128"]_vars

\* a call has returned false after its attempt failed with a subprocess
\* spawned, and the handles are null
C8_Witness ==
  \E t \in Tasks : /\ pc[t] = "done" /\ op[t] = "ensure"
                   /\ result[t] = "false" /\ nSpawned > 0
                   /\ mcp_session = 0 /\ mcp_client = 0

\* C9: on a disabled plugin no call ever suspends, takes the lock or creates
\* a client; _ensure_mcp_connection returns false and each tool returns the
\* status "disabled" (not the "not available" error that follows a call of
\* _ensure_mcp_connection).
C9_DisabledMode ==
  /\ nClients = 0 /\ nSpawned = 0 /\ mcp_session = 0 /\ mcp_client = 0
  /\ lockHolder = 0 /\ lockQueue = <<>> /\ ~is_connecting
  /\ \A t \in Tasks :
       /\ pc[t] \in {"idle", "done"}
       /\ pc[t] = "done" =>
            /\ op[t] = "ensure" => result[t] = "false"
            /\ op[t] \in ToolNames => result[t] = "disabled"

\* a tool call on a disabled plugin has returned
C9_Witness ==
  \E t \in Tasks : /\ ~graphrag_enabled /\ pc[t] = "done"
                   /\ op[t] = "local_search" /\ result[t] = "disabled"

(* ====================== properties of the pipeline ===================== *)
\* C10: whatever the input text and the return_dict mode, no exception
\* leaves clean_and_validate_json, and a call that is over has returned a
\* value: an object if return_dict, else a non-empty text.
C10_Total ==
  /\ step # "raised"
  /\ step \in {"none", "strip", "fence", "extract", "commas", "loads", "fields",
               "result", "recover", "fallback", "unexpected", "returned"}
  /\ step = "returned" =>
       IF return_dict THEN returned.t \in {"dict", "list", "str"}
       ELSE returned_text # ""

\* a call has returned after its recovery attempt raised an exception that
\* is no JSONDecodeError
C10_Witness ==
  /\ step = "returned" /\ exc.type = "UnboundLocalError"
  /\ Contains(raw, "{") /\ returned # PyNone

\* the value a finished call handed back, read as a Python object: the
\* object itself if return_dict, else the object its text stands for
ResultOf(rd, object, text) == IF rd THEN object ELSE Loads(text).v

ResultValue == ResultOf(return_dict, returned, returned_text)

\* the same of the call that returns in this step
ResultNext == ResultOf(return_dict', returned', returned_text')

\* C11: the result of every call is an object that holds a field `status`
\* whose value is success or error.
C11_StatusField ==
  step = "returned" =>
    /\ ResultValue.t = "dict"
    /\ HasKey(ResultValue, "status")
    /\ Get(ResultValue, "status") \in {PyStr("success"), PyStr("error")}

\* C12: the fallback returned when no parse succeeded (lines 140-149) holds
\* an error tag, and its final_answer is a prefix of the text the caller
\* gave, of at most FallbackLimit characters.
C12_FallbackIsRawPrefix ==
  [][(step = "fallback" /\ step' = "returned") =>
       /\ ResultNext.t = "dict"
       /\ HasKey(ResultNext, "error")
       /\ HasKey(ResultNext, "final_answer")
       /\ Len(Get(ResultNext, "final_answer").s) <= FallbackLimit
       /\ StartsWith(raw, Get(ResultNext, "final_answer").s)]_vars

\* the markdown-bearing fields an object holds with a str value
MarkdownFieldsOf(v) ==
  {markdown_fields[j] : j \in {i \in 1..Len(markdown_fields) :
      v.t = "dict" /\ HasKey(v, markdown_fields[i])
        /\ Get(v, markdown_fields[i]).t = "str"}}

\* C13: every markdown-bearing str field of a result went through the
\* three normalisers: the parsed object's fields at lines 77-84, and the
\* fallback's final_answer (the text of line 142) as well.
C13_FieldsNormalised ==
  [][/\ (step = "fields" /\ step' = "result") =>
          \A field \in MarkdownFieldsOf(parsed) :
            Get(parsed', field).s = NormalizeText(Get(parsed, field).s)
     /\ (step = "result" /\ step' = "returned") =>
          ResultNext = parsed
     /\ (step \in {"fallback", "unexpected"} /\ step' = "returned") =>
          \A field \in MarkdownFieldsOf(ResultNext) :
            Get(ResultNext, field).s =
              NormalizeText(IF step = "fallback" /\ content # ""
                            THEN Slice(content, 1, FallbackLimit)
                            ELSE Get(ResultNext, field).s)]_vars

\* the keys of an object
KeysOf(v) == {v.items[j].k : j \in 1..Len(v.items)}

\* the fields that are the same in two objects, but for the
\* markdown-bearing ones
SameAuxiliary(strict, res) ==
  /\ res.t = "dict"
  /\ KeysOf(res) = KeysOf(strict)
  /\ \A key \in KeysOf(strict) :
       key \in {markdown_fields[j] : j \in 1..Len(markdown_fields)}
         \/ Get(res, key) = Get(strict, key)

\* C14: when the text given is a valid JSON object, every field of the
\* result that is no markdown-bearing field has the value a strict parse of
\* the text gives it.
C14_AuxiliaryVerbatim ==
  LET Verbatim(strict) ==
        (strict.ok /\ strict.v.t = "dict") => SameAuxiliary(strict.v, ResultValue)
  IN step = "returned" => Verbatim(Loads(raw))

(* ------------------ the markdown normalisers on their own -------------- *)
\* the longest text of escape sequences a call is given
MaxEscLen == 3

EscapeAlphabet == {"\\", "n", "t", "r", "a"}

\* the texts over the alphabet, up to a length
RECURSIVE EscapeTexts(_)
EscapeTexts(n) ==
  LET Longer(T) == T \cup {s \o c : s \in T, c \in EscapeAlphabet}
  IN IF n = 0 THEN {""} ELSE Longer(EscapeTexts(n - 1))

\* values that are not a str
NonStrings == {PyNone, PyInt("5"), PyBool(FALSE), PyList(<<>>)}

\* what stands before a table: nothing, a line, a blank line, text on the
\* table's own line, lines that restate a cell
Leads ==
  {"", "text\n", "text\n\n", "x ", "The score is 93.5 points.\n",
   "total score here\n", "total score here\nThe score is 93.5 points.\n"}

\* tables: one row; rows without and with a separator row; cells of more
\* than ten characters
TableTexts ==
  {"|a|b|", "|a|b|\n|c|d|", "|a|b|\n|-|-|\n|c|d|",
   "| metric | value |\n|---|---|\n| total score | 93.5 points |"}

\* what stands after a table
Trails ==
  {"", "\n", "\nafter", "\n\nafter", " y", "\nThe score is 93.5 points.\n"}

MarkdownTexts ==
  {lead \o table \o trail :
     lead \in Leads, table \in TableTexts, trail \in Trails}

InitMarkdown ==
  /\ PluginInit(TRUE, TRUE, TRUE)
  /\ NoCall
  /\ NoExecutor
  /\ NoServerCall
  /\ \/ \E v \in {PyStr(s) : s \in EscapeTexts(MaxEscLen)} \cup NonStrings :
          MarkdownCallIs("clean_markdown_escapes", v, "called", PyNone)
     \/ \E s \in MarkdownTexts \cup {""},
           fn \in {"ensure_table_spacing", "clean_duplicate_table_content"} :
          MarkdownCallIs(fn, PyStr(s), "called", PyNone)

MarkdownReturns(fn, out) ==
  /\ md_fn = fn
  /\ md_step = "called"
  /\ md_step' = "returned"
  /\ md_out' = out
  /\ UNCHANGED <<pvars, jvars, evars, svars, md_fn, md_arg>>

\* line 12: a value that is not a str is returned as it is
CleanEscapes ==
  MarkdownReturns("clean_markdown_escapes",
                  IF md_arg.t = "str" THEN PyStr(clean_markdown_escapes(md_arg.s))
                  ELSE md_arg)

TableSpacing ==
  MarkdownReturns("ensure_table_spacing", PyStr(ensure_table_spacing(md_arg.s)))

DuplicateContent ==
  MarkdownReturns("clean_duplicate_table_content",
                  PyStr(clean_duplicate_table_content(md_arg.s)))

NextMarkdown ==
  \/ CleanEscapes
  \/ TableSpacing
  \/ DuplicateContent

SpecMarkdown == InitMarkdown /\ [][NextMarkdown]_vars

(* ----------------------- the markdown normalisers ---------------------- *)
HasText(s) == Strip(s) # ""

\* every table of a text has a blank line before it if text precedes it and
\* a blank line after it if text follows it
TablesSpaced(text) ==
  LET Spaced(ms) ==
        \A j \in 1..Len(ms) :
          /\ HasText(Slice(text, 1, ms[j].start - 1))
               => EndsWith(Slice(text, 1, ms[j].start - 1), "\n\n")
          /\ HasText(From(text, ms[j].end))
               => StartsWith(From(text, ms[j].end), "\n\n")
  IN Spaced(FindAll(SpacingTablePattern, text, 1))

\* C15: in the text ensure_table_spacing returns every table that has text
\* before it is preceded by a blank line and every table that has text after
\* it is followed by a blank line, wherever its first pipe stands; a text
\* whose tables have their blank lines is returned as it is.
C15_TablesSpaced ==
  (md_fn = "ensure_table_spacing" /\ md_step = "returned") =>
    /\ TablesSpaced(md_out.s)
    /\ TablesSpaced(md_arg.s) => md_out = md_arg

\* the lines of a text that are rows of a table
IsRow(line) == StartsWith(line, "|")

\* the cells of a row: the texts between two pipes that follow each other
RowCells(line) ==
  LET Between(pipes) ==
        {Strip(Slice(line, p[1] + 1, p[2] - 1)) :
           p \in {q \in pipes \X pipes :
                    q[1] < q[2] /\ \A d \in pipes : ~(q[1] < d /\ d < q[2])}}
  IN Between({i \in 1..Len(line) : Ch(line, i) = "|"})

\* the cells of a text's tables
TableCells(text) ==
  LET Of(lines) ==
        UNION {RowCells(lines[j]) : j \in {i \in 1..Len(lines) : IsRow(lines[i])}}
  IN Of(SplitLines(text))

\* how many lines outside the tables hold a text
NarrativeCount(text, cell) ==
  LET Count(lines) ==
        Cardinality({j \in 1..Len(lines) :
                       ~IsRow(lines[j]) /\ Contains(lines[j], cell)})
  IN Count(SplitLines(text))

\* a line before a row of a table holds the text of one of the row's cells
RestatedBefore(text, cell) ==
  LET Before(lines) ==
        \E j \in 1..Len(lines), k \in 1..Len(lines) :
          /\ j < k
          /\ ~IsRow(lines[j]) /\ Contains(lines[j], cell)
          /\ IsRow(lines[k]) /\ cell \in RowCells(lines[k])
  IN Before(SplitLines(text))

\* C16: for every cell of a table that is longer than ten characters and
\* whose text a line before the table holds, clean_duplicate_table_content
\* deletes one line that holds the text, the first, and keeps the others;
\* so for every cell of a row and for a table that ends the text.
C16_RestatingLineDeleted ==
  (md_fn = "clean_duplicate_table_content" /\ md_step = "returned") =>
    \A cell \in TableCells(md_arg.s) :
      (Len(cell) > MinCellLen /\ RestatedBefore(md_arg.s, cell)) =>
        NarrativeCount(md_out.s, cell) = NarrativeCount(md_arg.s, cell) - 1

\* the places of a text where a backslash stands before n, t or r
EscapePairs(s) ==
  {i \in 1..(Len(s) - 1) : Ch(s, i) = "\\" /\ Ch(s, i + 1) \in {"n", "t", "r"}}

\* the text read once from the left, every such pair taken for the control
\* character it names
RECURSIVE Unescaped(_, _)
Unescaped(s, i) ==
  IF i > Len(s) THEN ""
  ELSE IF i \in EscapePairs(s)
       THEN (CASE Ch(s, i + 1) = "n" -> "\n"
               [] Ch(s, i + 1) = "t" -> "\t"
               [] OTHER -> "\r") \o Unescaped(s, i + 2)
       ELSE Ch(s, i) \o Unescaped(s, i + 1)

\* C17: clean_markdown_escapes returns a str with every backslash-n,
\* backslash-t and backslash-r pair replaced by the newline, the tab and the
\* carriage return; no pair is left, and cleaning the result again returns
\* it unchanged; the empty str and a value that is not a str are returned
\* as they are.
C17_EscapesCleaned ==
  (md_fn = "clean_markdown_escapes" /\ md_step = "returned") =>
    /\ md_arg.t = "str" =>
         /\ md_out = PyStr(Unescaped(md_arg.s, 1))
         /\ EscapePairs(md_out.s) = {}
         /\ clean_markdown_escapes(md_out.s) = md_out.s
    /\ (md_arg.t # "str" \/ md_arg.s = "") => md_out = md_arg

\* a text with a pair has been cleaned
C17_Witness ==
  /\ md_fn = "clean_markdown_escapes" /\ md_step = "returned"
  /\ md_arg.t = "str" /\ EscapePairs(md_arg.s) # {}
  /\ md_out # md_arg

(* ---------------------------- GraphRAGExecutor ------------------------- *)
\* the executor's calls of the plugin run in one task
ExecTask == MinOf(Tasks)

\* {"status": ..., "message": ...}
StatusMessage(status, message) ==
  PyDict(<<Pair("status", PyStr(status)), Pair("message", PyStr(message))>>)

\* plugin lines 180-183, 186-189, 201-203, 207-211 (and the same of the two
\* searches): the str a tool returns; payload is the first text of the
\* server's response
ToolText(name, kind, payload) ==
  CASE kind = "disabled" ->
         Dumps(StatusMessage("disabled",
                 IF name = "index_documents"
                 THEN "GraphRAG is disabled. Set GRAPHRAG_ENABLED=true"
                 ELSE "GraphRAG is disabled"), ", ", ": ")
    [] kind = "error_unavailable" ->
         Dumps(StatusMessage("error", "GraphRAG MCP server not available"),
               ", ", ": ")
    [] kind = "error_exception" ->
         Dumps(StatusMessage("error", "exception"), ", ", ": ")
    [] kind = "empty_object" -> "{}"
    [] OTHER -> payload

\* texts a server sends: a success, an error of the server, a success with
\* context data, a list, a text that is no JSON, an object without status
ServerPayloads ==
  {"{\"status\": \"success\", \"response\": \"r\"}",
   "{\"status\": \"error\", \"message\": \"m\"}",
   "{\"status\": \"success\", \"context_data\": {\"communities\": []}}",
   "[]",
   "Error executing tool",
   "{\"response\": \"r\"}"}

\* data.get(key, default)
DataGet(d, key, default) == IF HasKey(d, key) THEN Get(d, key) ELSE default

\* `not v`
Falsy(v) ==
  v \in {PyNone, PyBool(FALSE), PyInt("0"), PyStr(""), PyList(<<>>), PyDict(<<>>)}

\* line 78
OperationOf(data) == DataGet(data, "operation", PyStr("local_search")).s

Operations == {"index", "local_search", "global_search"}

\* the key a handler puts its result under
ResultKey(operation) ==
  CASE operation = "local_search" -> "graphrag_local_result"
    [] operation = "global_search" -> "graphrag_global_result"
    [] OTHER -> "graphrag_result"

\* the plugin's tool a handler calls (lines 145, 229, 345)
ToolOf(operation) == IF operation = "index" THEN "index_documents" ELSE operation

\* the argument a handler wants (lines 129-132, 211-214, 329-331)
ArgumentOf(operation, data) ==
  IF operation = "index" THEN DataGet(data, "markdown_files", PyList(<<>>))
  ELSE DataGet(data, "query", PyStr(""))

Outcome(value, messages) == [ret |-> value, sent |-> messages]

\* a handler ends with an entry for its result: _index_documents returns the
\* mapping; _local_search sends and returns it; _global_search sends it and
\* returns it, but on its two early paths (lines 317-340) it returns nothing
Answer(operation, data, entry, early) ==
  LET Ends(result_data) ==
        CASE operation = "index" -> Outcome(result_data, <<>>)
          [] operation = "local_search" -> Outcome(result_data, <<result_data>>)
          [] OTHER -> Outcome(IF early THEN PyNone ELSE result_data,
                              <<result_data>>)
  IN Ends(Put(data, ResultKey(operation), entry))

\* lines 86-94
UnknownOperation(data) ==
  Outcome(Put(data, "graphrag_result",
              StatusMessage("error", "Unknown operation")), <<>>)

\* the handler of an operation returns before it calls the plugin
ReturnsEarly(data, enabled) ==
  \/ OperationOf(data) \notin Operations
  \/ ~enabled
  \/ Falsy(ArgumentOf(OperationOf(data), data))

\* lines 78-94, 115-141, 195-224, 313-340: up to the call of the plugin
ProcessEntry(data, enabled) ==
  LET Handler(operation) ==
        IF operation \notin Operations THEN UnknownOperation(data)
        ELSE IF ~enabled
             THEN Answer(operation, data,
                         StatusMessage("disabled", "GraphRAG is disabled"), TRUE)
             ELSE Answer(operation, data,
                         StatusMessage("error", "Nothing provided"), TRUE)
  IN Handler(OperationOf(data))

\* `result.get("response") or ""`, then len() and a slice of it
ResponseRaises(parsed_result) ==
  /\ HasKey(parsed_result, "response")
  /\ ~Falsy(Get(parsed_result, "response"))
  /\ Get(parsed_result, "response").t \notin {"str", "list"}

\* lines 238-273 and 350-369: the statements of the success branch that
\* raise (caught at lines 166, 286, 382)
LogRaises(operation, parsed_result) ==
  LET ContextRaises(context_data) ==
        \/ context_data.t # "dict"
        \/ operation = "local_search"
             /\ DataGet(context_data, "context_records", PyDict(<<>>)).t # "dict"
        \/ operation = "global_search"
             /\ \/ DataGet(context_data, "communities", PyList(<<>>)).t
                     \notin {"list", "dict", "str"}
                \/ ~Falsy(context_data) /\ ~HasKey(context_data, "reports")
  IN /\ operation # "index"
     /\ \/ ContextRaises(DataGet(parsed_result, "context_data", PyDict(<<>>)))
        \/ ResponseRaises(parsed_result)

\* lines 150-174, 234-296, 347-392: from the plugin's answer to the return
ProcessResult(operation, data, result_json) ==
  LET Checked(r) ==
        IF ~r.ok
        THEN Answer(operation, data, StatusMessage("error", "JSONDecodeError"), FALSE)
        ELSE IF r.v.t # "dict"
        THEN Answer(operation, data, StatusMessage("error", "AttributeError"), FALSE)
        ELSE IF DataGet(r.v, "status", PyNone) = PyStr("success")
                  /\ LogRaises(operation, r.v)
        THEN Answer(operation, data, StatusMessage("error", "exception"), FALSE)
        ELSE Answer(operation, data, r.v, FALSE)
  IN Checked(Loads(result_json))

\* the mappings a caller gives: with and without an operation, a query and
\* files to index
ExecutorInputs ==
  {PyDict(o \o q \o f) :
     o \in {<<>>} \cup {<<Pair("operation", PyStr(n))>> :
                          n \in Operations \cup {"delete"}},
     q \in {<<>>, <<Pair("query", PyStr("q"))>>, <<Pair("query", PyStr(""))>>},
     f \in {<<>>, <<Pair("markdown_files", PyList(<<PyStr("a.md")>>))>>}}

ExecutorFree == ex_pc \in {"idle", "returned"} /\ pc[ExecTask] = "idle"

ExecutorBecomes(at, data, out) ==
  /\ ex_pc' = at
  /\ ex_data' = data
  /\ ex_sent' = out.sent
  /\ ex_ret' = out.ret
  /\ UNCHANGED <<ex_enabled, jvars, mvars, svars>>

\* process_graphrag returns without a call of the plugin
ProcessReturns ==
  /\ ExecutorFree
  /\ \E data \in ExecutorInputs :
       /\ ReturnsEarly(data, ex_enabled)
       /\ ExecutorBecomes("returned", data, ProcessEntry(data, ex_enabled))
  /\ UNCHANGED pvars

\* process_graphrag comes to its call of the plugin's tool
ProcessCalls ==
  /\ ExecutorFree /\ CanConnect
  /\ \E data \in ExecutorInputs, ans \in BOOLEAN :
       /\ ~ReturnsEarly(data, ex_enabled)
       /\ ExecutorBecomes("awaiting", data, Outcome(PyNone, <<>>))
       /\ PluginBecomes(ToolEntry(Begin(Cur, ExecTask, ToolOf(OperationOf(data))),
                                  ExecTask, ans))

\* the tool has returned its str: the handler goes on to its return
PluginAnswers ==
  /\ ex_pc = "awaiting" /\ pc[ExecTask] = "done"
  /\ \E payload \in ServerPayloads :
       ExecutorBecomes("returned", ex_data,
         ProcessResult(OperationOf(ex_data), ex_data,
                       ToolText(op[ExecTask], result[ExecTask], payload)))
  /\ PluginBecomes(Drop(Cur, ExecTask))

\* GraphRAGExecutor.cleanup (lines 394-401) calls the plugin's cleanup
ExecutorCleanup ==
  /\ ExecutorFree
  /\ ExecutorBecomes("cleanup", PyNone, Outcome(PyNone, <<>>))
  /\ PluginBecomes(CleanupEntry(Begin(Cur, ExecTask, "cleanup"), ExecTask, "top"))

ExecutorCleanupReturns ==
  /\ ex_pc = "cleanup" /\ pc[ExecTask] = "done"
  /\ ExecutorBecomes("idle", PyNone, Outcome(PyNone, <<>>))
  /\ PluginBecomes(Drop(Cur, ExecTask))

InitExecutor ==
  /\ \E env \in BOOLEAN, avail \in BOOLEAN, venv \in BOOLEAN :
       PluginInit(env, avail, venv)
  /\ NoCall
  /\ NoMarkdownCall
  /\ \E enabled \in BOOLEAN : ExecutorIs(enabled, "idle", PyNone, <<>>, PyNone)
  /\ NoServerCall

NextExecutor ==
  \/ ProcessReturns
  \/ ProcessCalls
  \/ PluginAnswers
  \/ ExecutorCleanup
  \/ ExecutorCleanupReturns
  \/ ProbeDone(ExecTask)
  \/ SessExitDone(ExecTask)
  \/ ClientExitDone(ExecTask)
  \/ SpawnDone(ExecTask)
  \/ SessEnterDone(ExecTask)
  \/ InitializeDone(ExecTask)
  \/ ListToolsDone(ExecTask)
  \/ CallToolDone(ExecTask)

SpecExecutor == InitExecutor /\ [][NextExecutor]_vars

(* ------------------------------ the executor --------------------------- *)
\* what a call of process_graphrag gave out: its value and its messages
ExecutorOutputs == {ex_ret} \cup {ex_sent[j] : j \in 1..Len(ex_sent)}

\* C18: the entry that process_graphrag puts under its operation's result
\* key, in the mapping it returns and in the message it sends, is a mapping
\* that holds a field `status`, whatever the operation and whatever the
\* plugin answered.
C18_ResultHasStatus ==
  ex_pc = "returned" =>
    \A out \in ExecutorOutputs :
      out.t = "dict" =>
        /\ HasKey(out, ResultKey(OperationOf(ex_data)))
        /\ Get(out, ResultKey(OperationOf(ex_data))).t = "dict"
        /\ HasKey(Get(out, ResultKey(OperationOf(ex_data))), "status")

\* C19: process_graphrag returns a mapping that holds every key of its
\* argument, with the argument's value, and the result key of its
\* operation: graphrag_result for index, graphrag_local_result for
\* local_search, graphrag_global_result for global_search.
C19_ReturnsMapping ==
  (ex_pc = "returned" /\ OperationOf(ex_data) \in Operations) =>
    /\ ex_ret.t = "dict"
    /\ \A key \in KeysOf(ex_data) :
         HasKey(ex_ret, key) /\ Get(ex_ret, key) = Get(ex_data, key)
    /\ HasKey(ex_ret, ResultKey(OperationOf(ex_data)))

(* ------------------------- tools and cleanup --------------------------- *)
\* Concurrent tasks call the plugin's tools and cleanup on one plugin, every
\* task one call; the calls overlap in every way.
ToolCall(t) == pc[t] = "idle" /\ StartTool(t)

CleanupCall(t) == pc[t] = "idle" /\ StartCleanup(t)

NextTools ==
  \E t \in Tasks :
    \/ ToolCall(t)
    \/ CleanupCall(t)
    \/ Wake(t)
    \/ ProbeDone(t)
    \/ SessExitDone(t)
    \/ ClientExitDone(t)
    \/ SpawnDone(t)
    \/ SessEnterDone(t)
    \/ InitializeDone(t)
    \/ ListToolsDone(t)
    \/ CallToolDone(t)

SpecTools == Init /\ [][NextTools]_vars

\* a tool's call is inside the awaited call_tool
InCallTool(t) == op[t] \in ToolNames /\ pc[t] = "t_call"

\* a tool's call is inside _ensure_mcp_connection
InEnsure(t) == op[t] \in ToolNames /\ pc[t] \notin {"idle", "done", "t_call"}

\* C20: a call of index_documents, local_search or global_search runs
\* _ensure_mcp_connection at most once and call_tool at most once: it enters
\* _ensure_mcp_connection only as it starts, enters call_tool only from
\* there, and call_tool's end is the call's end; the call_tool that answers
\* gives the first text of the response, or the text {} for a response
\* without content; the call always returns a str, and after a failure one
\* that carries status error.
C20_OneAttemptNoRaise ==
  [][\A t \in Tasks :
       /\ (InCallTool(t) /\ pc'[t] # "t_call") =>
            /\ pc'[t] = "done"
            /\ result'[t] \in {"payload", "empty_object", "error_exception"}
       /\ (~InCallTool(t) /\ InCallTool(t)') => InEnsure(t)
       /\ (~InEnsure(t) /\ InEnsure(t)') => Free(t)
       /\ (op'[t] \in ToolNames /\ Returns(t)) =>
            result'[t] \in {"disabled", "error_unavailable", "error_exception",
                            "payload", "empty_object"}]_vars

\* a tool has passed _ensure_mcp_connection and awaits call_tool while
\* another task's cleanup has set the session to None
C20_Witness ==
  \E t \in Tasks, u \in Tasks :
    /\ InCallTool(t)
    /\ op[u] = "cleanup" /\ pc[u] = "c_client"
    /\ mcp_session = 0

(* ------------------------- the MCP server's tools ---------------------- *)
RECURSIVE DumpsIndent(_, _)
RECURSIVE DumpsIndentItems(_, _, _)

\* the members from the j-th on, each on a line of its own
DumpsIndentItems(v, j, pad) ==
  IF j > Len(v.items) THEN ""
  ELSE (IF j > 1 THEN "," ELSE "") \o "\n" \o pad
       \o (IF v.t = "dict"
           THEN EncodeString(v.items[j].k) \o ": " \o DumpsIndent(v.items[j].v, pad)
           ELSE DumpsIndent(v.items[j], pad))
       \o DumpsIndentItems(v, j + 1, pad)

\* json.dumps(v, ensure_ascii=False, indent=2) (server.py line 249); pad is
\* the indentation of the line the value starts on
DumpsIndent(v, pad) ==
  CASE v.t = "list" /\ v.items # <<>> ->
         "[" \o DumpsIndentItems(v, 1, pad \o "  ") \o "\n" \o pad \o "]"
    [] v.t = "dict" /\ v.items # <<>> ->
         "{" \o DumpsIndentItems(v, 1, pad \o "  ") \o "\n" \o pad \o "}"
    [] OTHER -> Dumps(v, ", ", ": ")

\* `if v`
Truthy(v) == ~Falsy(v)

\* what happens inside _index_documents: nothing to copy, the indexer
\* fails, it writes no output, it succeeds, a statement raises
IndexEvents == {"skipped", "failed", "no_output", "success", "raised"}

\* what happens inside a search handler: no configuration, no indexed
\* data, an exception, a result, a result that json.dumps cannot encode
SearchEvents == {"no_config", "not_found", "raised", "success", "unserializable"}

\* server.py lines 265-350
IndexResult(arguments, event) ==
  CASE event = "skipped" ->
         PyDict(<<Pair("status", PyStr("skipped")),
                  Pair("message", PyStr("All files already indexed")),
                  Pair("files_indexed", PyInt("0"))>>)
    [] event = "success" ->
         PyDict(<<Pair("status", PyStr("success")),
                  Pair("message", PyStr("Indexing completed")),
                  Pair("files_indexed", PyInt("1")),
                  Pair("files", PyList(<<PyStr("a.md")>>)),
                  Pair("output_files", PyList(<<PyStr("entities.parquet")>>))>>)
    [] OTHER ->
         PyDict(<<Pair("status", PyStr("error")),
                  Pair("message", PyStr(event)),
                  Pair("files_indexed", PyInt("0"))>>)

\* server.py lines 364-411 and 424-469
SearchResult(search_type, arguments, event) ==
  IF event \in {"success", "unserializable"}
  THEN PyDict(<<Pair("status", PyStr("success")),
                Pair("query", DataGet(arguments, "query", PyNone)),
                Pair("search_type", PyStr(search_type)),
                Pair("generate_answer",
                     DataGet(arguments, "generate_answer", PyBool(FALSE))),
                Pair("response",
                     IF Truthy(DataGet(arguments, "generate_answer", PyBool(FALSE)))
                     THEN PyStr("r") ELSE PyNone),
                Pair("context_data", PyDict(<<>>))>>)
  ELSE StatusMessage("error", event)

\* server.py lines 228-245: the result of the handler of a tool
ToolResult(name, arguments, event) ==
  CASE name = "index_documents" -> IndexResult(arguments, event)
    [] name = "local_search" -> SearchResult("local", arguments, event)
    [] name = "global_search" -> SearchResult("global", arguments, event)
    [] OTHER -> PyDict(<<Pair("error", PyStr("Unknown tool: " \o name))>>)

TextContent(text) == [type |-> "text", text |-> text]

\* server.py lines 227-257: call_tool
call_tool(name, arguments, event) ==
  IF event = "unserializable"
  THEN <<TextContent(Dumps(PyDict(<<Pair("error", PyStr("TypeError"))>>),
                           ", ", ": "))>>
  ELSE <<TextContent(DumpsIndent(ToolResult(name, arguments, event), ""))>>

\* the arguments a client sends
ServerArguments ==
  {PyDict(q \o f \o r \o g) :
     q \in {<<>>, <<Pair("query", PyStr("q"))>>},
     f \in {<<>>, <<Pair("markdown_files", PyList(<<PyStr("a.md")>>))>>},
     r \in {<<>>, <<Pair("force_reindex", PyBool(TRUE))>>},
     g \in {<<>>, <<Pair("generate_answer", PyBool(TRUE))>>}}

InitServer ==
  /\ PluginInit(TRUE, TRUE, TRUE)
  /\ NoCall
  /\ NoMarkdownCall
  /\ NoExecutor
  /\ \E name \in ToolNames \cup {"delete"}, arguments \in ServerArguments :
       ServerCallIs("called", name, arguments, <<>>)

ServerReturns(response) ==
  /\ sv_step = "called"
  /\ sv_step' = "returned"
  /\ sv_response' = response
  /\ UNCHANGED <<pvars, jvars, mvars, evars, sv_name, sv_arguments>>

\* lines 228-232 and 259-350; the files are skipped only without force_reindex
IndexDocuments ==
  /\ sv_name = "index_documents"
  /\ \E event \in IndexEvents :
       /\ event = "skipped" =>
            Falsy(DataGet(sv_arguments, "force_reindex", PyBool(FALSE)))
       /\ ServerReturns(call_tool(sv_name, sv_arguments, event))

\* lines 233-238 and 352-411
LocalSearch ==
  /\ sv_name = "local_search"
  /\ \E event \in SearchEvents :
       ServerReturns(call_tool(sv_name, sv_arguments, event))

\* lines 239-243 and 413-469
GlobalSearch ==
  /\ sv_name = "global_search"
  /\ \E event \in SearchEvents :
       ServerReturns(call_tool(sv_name, sv_arguments, event))

\* lines 244-245
UnknownTool ==
  /\ sv_name \notin ToolNames
  /\ ServerReturns(call_tool(sv_name, sv_arguments, "none"))

NextServer ==
  \/ IndexDocuments
  \/ LocalSearch
  \/ GlobalSearch
  \/ UnknownTool

SpecServer == InitServer /\ [][NextServer]_vars

\* C21: the response of call_tool is one text content whose text is a JSON
\* object with a field `status` that is success, error or disabled, for
\* every tool name and every course of the handler.
C21_ResponseHasStatus ==
  LET Shaped(r) ==
        /\ r.ok /\ r.v.t = "dict"
        /\ HasKey(r.v, "status")
        /\ Get(r.v, "status") \in {PyStr("success"), PyStr("error"), PyStr("disabled")}
  IN sv_step = "returned" =>
       /\ Len(sv_response) = 1
       /\ sv_response[1].type = "text"
       /\ Shaped(Loads(sv_response[1].text))

(* ------------------ C22: one connection attempt at a time -------------- *)
\* task t is inside the try block of lines 85-132: the marker is set, and
\* the task is at the spawn, the handshake or the listing (lines 114-120), or
\* in the cleanup() of the except clause (line 128)
InAttempt(t) ==
  \/ pc[t] \in ConnectPcs
  \/ pc[t] \in {"c_sess", "c_client"} /\ ret[t] = "line128"

\* C22: under any interleaving of _ensure_mcp_connection and cleanup calls
\* on one plugin, at most one task at a time is inside the
\* connection-establishment sequence (marker, spawn, handshake, listing,
\* and the cleanup of a failed attempt)
C22_OneTaskConnects ==
  \A t \in Tasks, u \in Tasks : InAttempt(t) /\ InAttempt(u) => t = u

\* a task is in the handshake while another task's call waits for the lock
C22_Witness ==
  \E t \in Tasks, u \in Tasks :
    /\ t # u
    /\ pc[t] \in {"e_enter", "e_init", "e_list"}
    /\ op[u] = "ensure" /\ pc[u] = "e_lock"

(* --------------- C23: a call that arrives during an attempt ------------ *)
\* C23: a call of _ensure_mcp_connection that arrived while another call's
\* connection attempt was in flight (it found the lock of line 74 taken)
\* does not queue behind that attempt and does not spawn a subprocess in
\* that call: its next step is the bounded sleep and the return, never the
\* attempt of lines 85-120
C23_WaiterDoesNotSpawn ==
  [][\A t \in Tasks :
       pc[t] = "e_lock" /\ pc'[t] # "e_lock" =>
         /\ pc'[t] \in {"e_sleep", "done"}
         /\ nClients' = nClients
         /\ \E u \in Tasks : InAttempt(u) /\ InAttempt(u)']_vars

(* ------------------- C24: texts without a brace pair ------------------- *)
\* the text given lacks a `{` or lacks a `}`; fence stripping only removes
\* text, so the text it leaves lacks the same
NoBracePair(s) == ~Contains(s, "{") \/ ~Contains(s, "}")

\* the object synthesized at lines 140-144
IsParseFallback(v) ==
  /\ v.t = "dict"
  /\ HasKey(v, "error") /\ Get(v, "error") = PyStr("json_parsing_failed")
  /\ HasKey(v, "sub_topic") /\ Get(v, "sub_topic") = PyStr("Unknown")
  /\ HasKey(v, "final_answer")

\* C24: when the text lacks a `{` or lacks a `}`, clean_and_validate_json
\* makes no parse attempt (json.loads of line 65 is not reached) and returns
\* the fallback object, also for valid JSON that is no object (an array, a
\* quoted string, a number, null)
C24_NoBraceFallback ==
  (step # "none" /\ NoBracePair(raw)) =>
    /\ step # "loads"
    /\ step = "returned" => IsParseFallback(ResultValue)

(* ------------------ C25: brace-balanced truncation recovery ------------ *)
\* the object the balanced prefix of a text denotes, if it denotes one
PrefixObject(s) == Loads(Slice(s, 1, LastValidPos(s)))

\* the strict parse of line 65 failed on a text whose balanced prefix is a
\* valid JSON object
Recoverable(s) ==
  LET Object(r) == r.ok /\ r.v.t = "dict"
  IN LastValidPos(s) > 0 /\ Object(PrefixObject(s))

\* C25: when the strict parse of the sliced text fails but the prefix
\* ending where the brace depth first returns to zero is a valid JSON
\* object, clean_and_validate_json returns that object with its markdown
\* fields normalized, not the fallback object
C25_PrefixRecovered ==
  [][(step = "recover" /\ step' # "recover" /\ Recoverable(content)) =>
       /\ step' = "returned"
       /\ ResultNext = NormalizeFields(PrefixObject(content).v, 1).parsed]_vars

(* ---------------- C26: a fenced object with a trailing comma ----------- *)
\* objects written with one trailing comma: the text before the comma and
\* the text after it
TrailingCommaBodies ==
  {<<"{\"final_answer\": \"hi\"", "}">>,
   <<"{\"k\":[1,2", "],\"answer\":\"a\\\\nb\"}">>,
   <<"{\"note\":\"x,}\"", "}">>}

\* the text is such an object between a pair of fence markers, with or
\* without text after the closing marker
FencedWithComma(s, body) ==
  \E w \in {"fenced", "fenced_more"} : s = Wrap(w, body[1] \o "," \o body[2])

\* the object the body denotes once the comma is removed, its markdown
\* fields normalized (lines 77-84)
Denoted(body) == NormalizeFields(Loads(body[1] \o body[2]).v, 1).parsed

\* C26: for a text that begins with a fence marker and whose fenced body is
\* a JSON object with one trailing comma before a closing brace or bracket,
\* clean_and_validate_json returns the object the body denotes once that
\* comma is removed, whatever stands outside the fence, and never the
\* fallback object
C26_FencedCommaRecovered ==
  step = "returned" =>
    \A body \in TrailingCommaBodies :
      FencedWithComma(raw, body) => ResultValue = Denoted(body)

(* ------------------- C27: the transport handle is kept ----------------- *)
\* C27: under any interleaving of _ensure_mcp_connection and cleanup calls,
\* the handle in mcp_client is set to None (line 159) or overwritten
\* (line 114) only after __aexit__ has been called on that very handle
\* (line 153); a cleanup that began on an old transport never nulls the
\* handle of a transport created after it began
C27_NoDroppedHandle ==
  [][(mcp_client # 0 /\ mcp_client' # mcp_client) =>
       transport[mcp_client] = "stopping"]_vars

(* ----------------------- C28: the handles' pairing --------------------- *)
\* C28: in every reachable state of the plugin, under any interleaving of
\* _ensure_mcp_connection and cleanup calls, mcp_session is not None only
\* if mcp_client is not None
C28_SessionHasClient == mcp_session # 0 => mcp_client # 0

(* --------------------- C29: the lock and the marker -------------------- *)
\* task t is inside `async with self._connection_lock` (lines 75-132)
HoldsLock(t) == lockHolder = t

\* the tasks queued in the lock's acquire (line 74)
Queued == {lockQueue[j] : j \in 1..Len(lockQueue)}

\* C29: _is_connecting is true only while the lock is held by the task that
\* set it, inside its attempt, so the check of line 79 never finds it true
\* (no task reaches the sleep of line 82); a task that runs no call, whatever
\* the way its last call ended, holds no lock and waits for none, and whoever
\* holds the lock is inside _ensure_mcp_connection: nothing is left behind
\* that blocks a later call
C29_LockAndMarker ==
  /\ is_connecting => \E t \in Tasks : HoldsLock(t) /\ InAttempt(t)
  /\ \A t \in Tasks :
       /\ pc[t] # "e_sleep"
       /\ HoldsLock(t) => op[t] \in EnsureOps /\ InAttempt(t)
       /\ pc[t] \in {"idle", "done"} => ~HoldsLock(t) /\ t \notin Queued
       /\ t \in Queued <=> pc[t] = "e_lock"
  /\ (\A t \in Tasks : pc[t] \in {"idle", "done"}) =>
       lockHolder = 0 /\ ~is_connecting

\* a call has returned false after its attempt failed, and a later attempt
\* of the other task holds the lock with the marker set
C29_Witness ==
  \E t \in Tasks, u \in Tasks :
    /\ t # u
    /\ pc[t] = "done" /\ op[t] = "ensure" /\ result[t] = "false"
    /\ nClients >= 2
    /\ HoldsLock(u) /\ is_connecting /\ pc[u] \in ConnectPcs

(* ------------------- C30: the table's lines are kept ------------------- *)
\* the lines of a text that belong to a table, in their order
TableLines(text) == SelectSeq(SplitLines(text), IsRow)

\* C30: clean_duplicate_table_content deletes no line of a table (header,
\* separator, data row); and when no line before a table holds the text of
\* one of its cells, the text returned is the text given, also with cells
\* longer than ten characters
C30_TableKept ==
  (md_fn = "clean_duplicate_table_content" /\ md_step = "returned") =>
    /\ TableLines(md_out.s) = TableLines(md_arg.s)
    /\ (\A cell \in TableCells(md_arg.s) : ~RestatedBefore(md_arg.s, cell))
         => md_out.s = md_arg.s

====
